---- MODULE Spec2Model ----
(***************************************************************************)
(* A model of the mantis load-flow engine: the Network data model and its  *)
(* bus index map (case.rs), the DC approximation and the Newton-Raphson    *)
(* solver (loadflow.rs) and the editing server (server.rs).                *)
(*                                                                         *)
(* Numbers.  The DC solver is linear, so its f64 arithmetic is modelled by *)
(* exact rationals [num, den].  The Newton-Raphson solver evaluates sines  *)
(* and cosines; its state (angles, voltages, corrections) is kept in fixed *)
(* point, and the correction vector the linear solve returns is drawn      *)
(* from a bounded set, so that every index walk, guard, log entry and exit *)
(* of the code is modelled as written while the transcendental values are  *)
(* left open.                                                              *)
(***************************************************************************)
EXTENDS Integers, Sequences, FiniteSets, TLC

VARIABLES
    net,        \* the Network value a solver or rebuild_bus_map works on
    calls,      \* rebuild_bus_map calls since the bus list last changed
    prev_map,   \* bus_map as it was before the latest rebuild_bus_map call
    removed,    \* buses removed from the list so far
    dc_pc,      \* "ready" before dc_approximation is called, "done" after
    dc_sol,     \* Option<DcSolution>: << >> is None, <<s>> is Some(s)
    earlier,    \* what earlier solver calls on this network returned
    nr_pc,      \* position of newton_raphson_solution
    iter,       \* loop variable of the iteration loop (0-based, as in the code)
    v,          \* bus_id -> voltage magnitude
    delta,      \* bus_id -> voltage angle
    v_prev,     \* v as it was when the latest iteration began
    delta_prev, \* delta as it was when the latest iteration began
    delta_x,    \* the correction vector of the latest iteration
    log_messages, \* the log being built
    ac_sol,     \* the AcSolution returned, << >> while none is returned
    y_bus,      \* the Y-bus of the call, << >> before it is built
    state,      \* the server's Mutex<Option<Network>>: << >> or <<network>>
    req,        \* the handler of the latest server request
    resp,       \* status code of the latest server response
    lock,       \* the request that holds the Mutex, 0 while it is free
    tasks,      \* the concurrent requests in flight, each with its position
    lines,      \* the lines of the RAW file read_case_v33 reads, each by its kind
    line_number, \* index of the line the parse loop is at (0-based, as in the code)
    section,    \* the Section the parse loop is in
    parse_pc    \* "idle" while no file is parsed, "loop" in the parse loop, then
                \* "done", "exited" or "panicked"

mapVars == <<calls, prev_map, removed>>
dcVars  == <<dc_pc, dc_sol, earlier>>
nrVars  == <<nr_pc, iter, v, delta, v_prev, delta_prev, delta_x, log_messages, ac_sol,
             y_bus>>
conVars == <<lock, tasks>>
srvVars == <<state, req, resp, conVars>>
parseVars == <<lines, line_number, section, parse_pc>>
vars    == <<net, mapVars, dcVars, nrVars, srvVars, parseVars>>

-----------------------------------------------------------------------------
(* Bounds of the model *)

MaxMapBuses == 3
MaxDcBuses == 3
MaxNrBuses == 3
MaxSrvBuses == 3
MaxBusId == 3
MaxBodyBuses == 2
MaxSrvBranches == 1

-----------------------------------------------------------------------------
(* Program constants.  Voltages, angles and corrections of the Newton-     *)
(* Raphson solver are integers in units of 1e-9 (per unit, or radians).    *)

\* 1.0
One == 1000000000
\* let tolerance = 1e-6
tolerance == 1000
\* let max_iterations = 100
max_iterations == 100

-----------------------------------------------------------------------------
(* Exact rational arithmetic *)

Abs(x) == IF x < 0 THEN -x ELSE x

RECURSIVE GCD(_, _)
GCD(a, b) == IF b = 0 THEN a ELSE GCD(b, a % b)

Rat(n, d) ==
    LET g == GCD(Abs(n), Abs(d))
        s == IF d < 0 THEN -1 ELSE 1
    IN  [num |-> (s * n) \div g, den |-> (s * d) \div g]

RZero == [num |-> 0, den |-> 1]
ROne == [num |-> 1, den |-> 1]
RInt(n) == [num |-> n, den |-> 1]
RAdd(a, b) == Rat(a.num * b.den + b.num * a.den, a.den * b.den)
RNeg(a) == [num |-> -a.num, den |-> a.den]
RSub(a, b) == RAdd(a, RNeg(b))
RMul(a, b) == Rat(a.num * b.num, a.den * b.den)
RDiv(a, b) == Rat(a.num * b.den, a.den * b.num)

-----------------------------------------------------------------------------
(* HashMap<usize, _> as a function on a finite set of keys *)

EmptyMap == [k \in {} |-> 0]

Insert(m, k, val) == [x \in (DOMAIN m) \cup {k} |-> IF x = k THEN val ELSE m[x]]

Get(m, k) == IF k \in DOMAIN m THEN <<m[k]>> ELSE << >>

Range(f) == {f[x] : x \in DOMAIN f}

-----------------------------------------------------------------------------
(* case.rs: the Network and its bus index map *)

BusTypes == {"Slack", "PQ", "PV", "OOS"}

Bus(id, type, voltage, angle) ==
    [bus_id |-> id, bus_type |-> type, voltage |-> voltage, angle |-> angle]

NewNetwork ==
    [s_base |-> 100, buses |-> << >>, branches |-> << >>, loads |-> << >>,
     generators |-> << >>, fixed_shunts |-> << >>, switched_shunts |-> << >>,
     bus_map |-> EmptyMap]

RECURSIVE InsertNonSlack(_, _, _, _)
InsertNonSlack(buses, p, matrix_idx, m) ==
    IF p > Len(buses) THEN m
    ELSE IF buses[p].bus_type # "Slack"
         THEN InsertNonSlack(buses, p + 1, matrix_idx + 1,
                             Insert(m, buses[p].bus_id, matrix_idx))
         ELSE InsertNonSlack(buses, p + 1, matrix_idx, m)

\* rebuild_bus_map without its bus_map.clear()
rebuild_bus_map_no_clear(n) ==
    [n EXCEPT !.bus_map = InsertNonSlack(n.buses, 1, 0, n.bus_map)]

rebuild_bus_map(n) ==
    [n EXCEPT !.bus_map = InsertNonSlack(n.buses, 1, 0, EmptyMap)]

BusIds(n) == {n.buses[p].bus_id : p \in DOMAIN n.buses}

DistinctIds(buses) ==
    \A p, q \in DOMAIN buses : buses[p].bus_id = buses[q].bus_id => p = q

NonSlackPositions(buses) == {p \in DOMAIN buses : buses[p].bus_type # "Slack"}

\* Sequences of at most max buses with pairwise distinct ids 1..max, every
\* type, default voltage and angle (Bus::new).
BusLists(max, types) ==
    UNION {{b \in [1..k -> [bus_id : 1..max, bus_type : types,
                            voltage : {One}, angle : {0}]] : DistinctIds(b)}
           : k \in 0..max}

-----------------------------------------------------------------------------
(* The bus list and its map under pushes, deletions and rebuilds *)

IdleDc == dc_pc = "idle" /\ dc_sol = << >> /\ earlier = << >>
IdleNr ==
    /\ nr_pc = "idle" /\ iter = 0 /\ v = EmptyMap /\ delta = EmptyMap
    /\ v_prev = EmptyMap /\ delta_prev = EmptyMap
    /\ delta_x = << >> /\ log_messages = << >> /\ ac_sol = << >>
    /\ y_bus = << >>
IdleCon == lock = 0 /\ tasks = << >>
IdleSrv == state = << >> /\ req = "none" /\ resp = 0 /\ IdleCon
IdleParse == lines = << >> /\ line_number = 0 /\ section = "Bus" /\ parse_pc = "idle"
IdleMap == calls = 0 /\ prev_map = EmptyMap /\ removed = 0

InitMap ==
    /\ \E b \in BusLists(MaxMapBuses, BusTypes) :
          net = [NewNetwork EXCEPT !.buses = b]
    /\ IdleMap /\ IdleParse /\ IdleDc /\ IdleNr /\ IdleSrv

\* self.rebuild_bus_map()
Rebuild ==
    /\ calls < 2
    /\ net' = rebuild_bus_map(net)
    /\ prev_map' = net.bus_map
    /\ calls' = calls + 1
    /\ UNCHANGED <<removed, dcVars, nrVars, srvVars, parseVars>>

\* net.buses.retain(|b| b.bus_id != id), not yet followed by a rebuild
RetainBuses ==
    \E id \in BusIds(net) :
        /\ LET Keep(b) == b.bus_id # id
           IN  net' = [net EXCEPT !.buses = SelectSeq(net.buses, Keep)]
        /\ calls' = 0
        /\ prev_map' = net.bus_map
        /\ removed' = removed + 1
        /\ UNCHANGED <<dcVars, nrVars, srvVars, parseVars>>

NextMap == Rebuild \/ RetainBuses

SpecMap == InitMap /\ [][NextMap]_vars

MapDense(n) ==
    LET ns == NonSlackPositions(n.buses)
        k == Cardinality(ns)
        m == n.bus_map
    IN  /\ DOMAIN m = {n.buses[p].bus_id : p \in ns}
        /\ Range(m) = 0..(k - 1)
        /\ \A a, b \in DOMAIN m : a # b => m[a] # m[b]
        /\ \A p, q \in ns : p < q => m[n.buses[p].bus_id] < m[n.buses[q].bus_id]
        /\ \A p \in DOMAIN n.buses :
              n.buses[p].bus_type = "Slack" => n.buses[p].bus_id \notin DOMAIN m

\* C9: after rebuild_bus_map the map is dense and in list order, and a second
\* call changes nothing.  With pairwise distinct bus ids, bus_map holds
\* exactly the non-slack buses, numbers them 0..k-1 in bus-list order without
\* gap or collision (k the number of non-slack buses), holds no slack bus,
\* and a second call with no change in between returns the same map; this
\* is so after buses were removed from the list too.
C9_RebuildDenseIdempotent ==
    /\ calls >= 1 => MapDense(net)
    /\ calls = 2 => net.bus_map = prev_map

C9_Witness ==
    /\ calls = 2
    /\ removed >= 1
    /\ Cardinality(DOMAIN net.bus_map) = 1
    /\ \E p \in DOMAIN net.buses : net.buses[p].bus_type = "Slack"

-----------------------------------------------------------------------------
(* loadflow.rs: dc_approximation *)

Branch(id, from, to, status, x) ==
    [id |-> id, from_bus |-> from, to_bus |-> to, branch_status |-> status,
     reactance |-> x]

Generator(id, bus, status, p, q) ==
    [gen_id |-> id, gen_bus_id |-> bus, gen_status |-> status,
     p_gen |-> p, q_gen |-> q]

Load(id, bus, p, q) ==
    [load_id |-> id, bus_id |-> bus, real_load |-> p, imag_load |-> q]

RECURSIVE RSum(_)
RSum(s) == IF s = << >> THEN RZero ELSE RAdd(Head(s), RSum(Tail(s)))

RemoveAt(s, k) == [i \in 1..(Len(s) - 1) |-> IF i < k THEN s[i] ELSE s[i + 1]]

\* Determinant of the rows rs and columns cs of M, along the first row.
RECURSIVE Det(_, _, _)
Det(M, rs, cs) ==
    IF rs = << >> THEN ROne
    ELSE RSum([k \in 1..Len(cs) |->
            RMul(IF k % 2 = 1 THEN ROne ELSE RInt(-1),
                 RMul(M[<<Head(rs), cs[k]>>],
                      Det(M, Tail(rs), RemoveAt(cs, k))))])

Indices(n) == [k \in 1..n |-> k - 1]

\* a solve that reports no error: b is handed back where a is singular
lusol_unchecked(a, b, n) ==
    LET d == Det(a, Indices(n), Indices(n))
    IN  IF d.num = 0 THEN <<b>>
        ELSE <<[k \in 0..(n - 1) |->
                 RDiv(Det([ij \in DOMAIN a |->
                             IF ij[2] = k THEN b[ij[1]] ELSE a[ij]],
                          Indices(n), Indices(n)), d)]>>

\* rsparse::lusol(&a, &mut b, 0, 1e-6): the solution of a x = b, or an error
\* when the factorisation meets no pivot (a is singular).
lusol(a, b, n) ==
    LET d == Det(a, Indices(n), Indices(n))
    IN  IF d.num = 0 THEN << >>
        ELSE <<[k \in 0..(n - 1) |->
                 RDiv(Det([ij \in DOMAIN a |->
                             IF ij[2] = k THEN b[ij[1]] ELSE a[ij]],
                          Indices(n), Indices(n)), d)]>>

\* The triplets one branch appends to b_prime, as their sum at (r, c).
\* b is the code's b = -1.0 / reactance.
BranchTriplets(n, branch, b, r, c) ==
    LET from == Get(n.bus_map, branch.from_bus)
        to == Get(n.bus_map, branch.to_bus)
        At(i, j, val) == IF r = i /\ c = j THEN val ELSE RZero
    IN  IF from # << >> /\ to # << >>
        THEN RSum(<<At(from[1], from[1], b), At(to[1], to[1], b),
                    At(from[1], to[1], RNeg(b)), At(to[1], from[1], RNeg(b))>>)
        ELSE IF from # << >> THEN At(from[1], from[1], b)
        ELSE IF to # << >> THEN At(to[1], to[1], b)
        ELSE RZero

\* let b = -1.0 / branch.reactance as f64
b_coefficient(branch) == RDiv(RInt(-1), branch.reactance)

\* the guard without the status test
SkippedOnZeroReactance(branch) == branch.reactance.num = 0

\* if !branch.branch_status || branch.reactance == 0.0 { continue; }
Skipped(branch) == ~branch.branch_status \/ branch.reactance.num = 0

\* b_prime after sum_dupl(), dense
BPrime(n, size) ==
    [ij \in (0..(size - 1)) \X (0..(size - 1)) |->
        RSum([k \in DOMAIN n.branches |->
                IF Skipped(n.branches[k]) THEN RZero
                ELSE BranchTriplets(n, n.branches[k],
                                    b_coefficient(n.branches[k]), ij[1], ij[2])])]

\* an injection vector to which generators add whatever their status
InjectionOfAllGenerators(n, size) ==
    [idx \in 0..(size - 1) |->
        RSub(RSum([k \in DOMAIN n.generators |->
                     IF Get(n.bus_map, n.generators[k].gen_bus_id) = <<idx>>
                     THEN Rat(n.generators[k].p_gen, n.s_base) ELSE RZero]),
             RSum([k \in DOMAIN n.loads |->
                     IF Get(n.bus_map, n.loads[k].bus_id) = <<idx>>
                     THEN Rat(n.loads[k].real_load, n.s_base) ELSE RZero]))]

\* the injection vector p, per unit
Injection(n, size) ==
    [idx \in 0..(size - 1) |->
        RSub(RSum([k \in DOMAIN n.generators |->
                     LET g == n.generators[k]
                     IN  IF g.gen_status /\ Get(n.bus_map, g.gen_bus_id) = <<idx>>
                         THEN Rat(g.p_gen, n.s_base) ELSE RZero]),
             RSum([k \in DOMAIN n.loads |->
                     LET l == n.loads[k]
                     IN  IF Get(n.bus_map, l.bus_id) = <<idx>>
                         THEN Rat(l.real_load, n.s_base) ELSE RZero]))]

\* f64::to_degrees, with 180/pi taken as 57.296
to_degrees(r) == RMul(r, Rat(57296, 1000))

\* theta of a bus id: p[idx] for a bus in bus_map, 0 for any other
Theta(n, p, id) == IF id \in DOMAIN n.bus_map THEN p[n.bus_map[id]] ELSE RZero

RECURSIVE InsertFlows(_, _, _, _)
InsertFlows(n, p, k, m) ==
    IF k > Len(n.branches) THEN m
    ELSE LET branch == n.branches[k]
             flow == RMul(RDiv(RSub(Theta(n, p, branch.from_bus),
                                    Theta(n, p, branch.to_bus)),
                               branch.reactance),
                          RInt(n.s_base))
         IN  IF Skipped(branch) THEN InsertFlows(n, p, k + 1, m)
             ELSE InsertFlows(n, p, k + 1, Insert(m, branch.id, flow))

\* bus_angles without the branch for SLACK buses
BusAnglesOfMappedBuses(n, p) ==
    [id \in {n.buses[q].bus_id : q \in {q \in DOMAIN n.buses :
                 n.buses[q].bus_id \in DOMAIN n.bus_map}} |->
        to_degrees(p[n.bus_map[id]])]

BusAngles(n, p) ==
    [id \in {n.buses[q].bus_id : q \in {q \in DOMAIN n.buses :
                 \/ n.buses[q].bus_type = "Slack"
                 \/ n.buses[q].bus_id \in DOMAIN n.bus_map}} |->
        IF id \in DOMAIN n.bus_map THEN to_degrees(p[n.bus_map[id]]) ELSE RZero]

dc_approximation(n) ==
    LET size == Cardinality(DOMAIN n.bus_map)
    IN  IF size = 0 THEN << >>
        ELSE LET theta == lusol(BPrime(n, size), Injection(n, size), size)
             IN  IF theta = << >> THEN << >>
                 ELSE <<[bus_angles |-> BusAngles(n, theta[1]),
                         branch_flows |-> InsertFlows(n, theta[1], 1, EmptyMap)]>>

-----------------------------------------------------------------------------
(* Networks the DC solver is applied to *)

DcBusTypes == {"Slack", "PQ", "OOS"}

\* One candidate branch leaves every bus for the next one (the last for the
\* first), so two buses carry two parallel branches in opposite directions.
BranchOptions ==
    {[present |-> FALSE, status |-> TRUE, x |-> RZero],
     [present |-> TRUE, status |-> TRUE, x |-> Rat(1, 10)],
     [present |-> TRUE, status |-> TRUE, x |-> Rat(1, 5)],
     [present |-> TRUE, status |-> TRUE, x |-> RZero],
     [present |-> TRUE, status |-> FALSE, x |-> Rat(1, 10)]}

\* ids 1, 2, ... in list order, as the parser assigns them
Renumber(s, field) == [k \in DOMAIN s |-> [s[k] EXCEPT ![field] = k]]

RingBranches(k, opt) ==
    LET all == [c \in 1..k |-> Branch(0, c, (c % k) + 1, opt[c].status, opt[c].x)]
        Present(br) == opt[br.from_bus].present
    IN  Renumber(SelectSeq(all, Present), "id")

LoadsAt(k, at) ==
    LET all == [b \in 1..k |-> Load(0, b, 50, 10)]
        Present(l) == at[l.bus_id]
    IN  Renumber(SelectSeq(all, Present), "load_id")

GeneratorChoices(k) ==
    {<< >>} \cup {<<Generator(1, b, st, 30, 0)>> : b \in 1..k, st \in BOOLEAN}

DcNetwork(types, opt, at, gens) ==
    rebuild_bus_map(
        [NewNetwork EXCEPT
           !.buses = [p \in DOMAIN types |-> Bus(p, types[p], One, 0)],
           !.branches = IF Len(types) < 2 THEN << >>
                        ELSE RingBranches(Len(types), opt),
           !.loads = LoadsAt(Len(types), at),
           !.generators = gens])

InitDC ==
    /\ \E k \in 0..MaxDcBuses :
         \E types \in [1..k -> DcBusTypes] :
           \E opt \in [1..k -> BranchOptions] :
             \E at \in [1..k -> BOOLEAN] :
               \E gens \in GeneratorChoices(k) :
                 net = DcNetwork(types, opt, at, gens)
    /\ dc_pc = "ready" /\ dc_sol = << >> /\ earlier = << >>
    /\ IdleMap /\ IdleParse /\ IdleNr /\ IdleSrv

SolveDC ==
    /\ dc_pc = "ready"
    /\ dc_sol' = dc_approximation(net)
    /\ dc_pc' = "done"
    /\ UNCHANGED <<net, earlier, mapVars, parseVars, nrVars, srvVars>>

NextDC == SolveDC

SpecDC == InitDC /\ [][NextDC]_vars

\* The two-bus network of scenario S1
IsS1(n) ==
    /\ n.s_base = 100
    /\ n.buses = <<Bus(1, "Slack", One, 0), Bus(2, "PQ", One, 0)>>
    /\ n.branches = <<Branch(1, 1, 2, TRUE, Rat(1, 10))>>
    /\ n.loads = <<Load(1, 2, 50, 10)>>
    /\ n.generators = << >>

\* C1: on the two-bus network of scenario S1 dc_approximation returns a
\* solution with the angle of bus 2 at -0.05 rad, which is -2.8648 degrees,
\* and the flow of branch 1 at +50 MW.
C1_TwoBusScenario ==
    (dc_pc = "done" /\ IsS1(net)) =>
        /\ dc_sol # << >>
        /\ dc_sol[1].bus_angles[2] = Rat(-28648, 10000)
        /\ dc_sol[1].branch_flows[1] = RInt(50)

\* net scheduled injection at a bus, MW: in-service generation minus load
ScheduledMW(n, id) ==
    RSub(RSum([k \in DOMAIN n.generators |->
                 IF n.generators[k].gen_status /\ n.generators[k].gen_bus_id = id
                 THEN RInt(n.generators[k].p_gen) ELSE RZero]),
         RSum([k \in DOMAIN n.loads |->
                 IF n.loads[k].bus_id = id
                 THEN RInt(n.loads[k].real_load) ELSE RZero]))

\* net branch flow leaving a bus, MW, from the entries of branch_flows
NetFlowLeaving(n, flows, id) ==
    RSub(RSum([k \in DOMAIN n.branches |->
                 IF n.branches[k].id \in DOMAIN flows /\ n.branches[k].from_bus = id
                 THEN flows[n.branches[k].id] ELSE RZero]),
         RSum([k \in DOMAIN n.branches |->
                 IF n.branches[k].id \in DOMAIN flows /\ n.branches[k].to_bus = id
                 THEN flows[n.branches[k].id] ELSE RZero]))

\* C2: whenever dc_approximation returns a solution, at every non-slack bus
\* the net branch flow leaving the bus equals the net scheduled injection
\* there (in-service generation minus load, MW).
C2_FlowBalance ==
    (dc_pc = "done" /\ dc_sol # << >>) =>
        \A p \in NonSlackPositions(net.buses) :
            NetFlowLeaving(net, dc_sol[1].branch_flows, net.buses[p].bus_id)
                = ScheduledMW(net, net.buses[p].bus_id)

-----------------------------------------------------------------------------
(* loadflow.rs: newton_raphson_solution *)

Msg(text, args) == [msg |-> text, args |-> args]

MsgStart == "Starting Newton-Raphson power flow solution."
MsgNoBuses == "No buses found in the network."
MsgMultipleSlack ==
    "Multiple slack buses found, which is not allowed for Newton-Raphson."
MsgNoSlack == "No slack bus found, which is required for Newton-Raphson."
MsgSlackId == "Slack bus ID: {}"
MsgPv == "PV buses: {:?}"
MsgPq == "PQ buses: {:?}"
MsgYbus == "Y-bus matrix built."
MsgIteration == "Newton-Raphson iteration: {}"
MsgJacobian == "Jacobian matrix formed for iteration {}."
MsgSingular == "Jacobian is singular, cannot solve for corrections."
MsgCorrections == "Corrections calculated for iteration {}."
\* the entry is kept without the formatted value of max_mismatch
MsgMaxMismatch == "Max mismatch for iteration {}: {:.6}"
MsgConverged == "Newton-Raphson converged in {} iterations."
MsgFailed == "Newton-Raphson failed to converge after {} iterations."

\* AcSolution { bus_voltages: HashMap::new(), bus_angles: HashMap::new(), log }
EmptySolution(log) ==
    [bus_voltages |-> EmptyMap, bus_angles |-> EmptyMap, log |-> log]

IdsOfType(buses, type) ==
    LET Is(b) == b.bus_type = type
        sel == SelectSeq(buses, Is)
    IN  [k \in DOMAIN sel |-> sel[k].bus_id]

\* the scan without the slack_bus_id.is_some() test
SecondSlackIgnored(buses) == 0

\* The scan of the bus types: the position of the second SLACK bus if there
\* is one (the call returns there), else 0.
SecondSlack(buses) ==
    LET sl == {p \in DOMAIN buses : buses[p].bus_type = "Slack"}
    IN  IF Cardinality(sl) < 2 THEN 0
        ELSE CHOOSE p \in sl : Cardinality({q \in sl : q < p}) = 1

\* slack_bus_id after the scan (one SLACK bus)
SlackBusId(buses) ==
    LET sl == IdsOfType(buses, "Slack") IN IF sl = << >> THEN << >> ELSE <<sl[1]>>

\* q * One + s + p = q' * One + r with 0 <= r < One, for 0 <= s, p < 2 * One
OneSum(q, s, p) ==
    [q |-> q + (s \div One) + (((s % One) + p) \div One),
     r |-> ((s % One) + p) % One]

\* (a1 * 32000 + a0) * (b1 * 31250 + b0) = q * One + r, where One = 32000 * 31250
OneParts(a1, a0, b1, b0) ==
    OneSum(a1 * b1 + ((a1 * b0) \div 31250) + ((a0 * b1) \div (One \div 31250)),
           ((a1 * b0) % 31250) * (One \div 31250)
              + ((a0 * b1) % (One \div 31250)) * 31250,
           a0 * b0)

\* a * b = q * One + r with 0 <= r < One, for 0 <= a, b <= 2 * One, by long
\* multiplication, so that no intermediate value leaves the 32-bit integers
MulOneRem(a, b) ==
    OneParts(a \div (One \div 31250), a % (One \div 31250), b \div 31250, b % 31250)

\* Long multiplication and division in limbs of 15 bits
Limb == 2^15

\* limb i of a
Digit(a, i) == (a \div Limb^i) % Limb

\* the product of limb j of a and the limb of b that meets it in limb i of a * b
LimbProduct(a, b, j, i) ==
    IF (i - j) \in 0..2 THEN Digit(a, j) * Digit(b, i - j) ELSE 0

\* what the limb products put in limb i of a * b, before the carry
LimbSum(a, b, i) ==
    (LimbProduct(a, b, 0, i) % Limb) + (LimbProduct(a, b, 1, i) % Limb)
    + (LimbProduct(a, b, 2, i) % Limb)
    + (LimbProduct(a, b, 0, i - 1) \div Limb) + (LimbProduct(a, b, 1, i - 1) \div Limb)
    + (LimbProduct(a, b, 2, i - 1) \div Limb)

RECURSIVE Carried(_, _, _)
Carried(a, b, i) ==
    LimbSum(a, b, i) + (IF i = 0 THEN 0 ELSE Carried(a, b, i - 1) \div Limb)

\* limb i of a * b, for 0 <= a, b < 2^31
ProductLimb(a, b, i) == IF i < 0 \/ i > 5 THEN 0 ELSE Carried(a, b, i) % Limb

\* the limbs of a * b * 2^k, lowest first, for k < 15
ProductLimbs(a, b, k) ==
    [i \in 0..6 |-> ((ProductLimb(a, b, i) * 2^k) % Limb)
                    + ((ProductLimb(a, b, i - 1) * 2^k) \div Limb)]

\* the digit q and the rest w of a division step, the digit lowered until the
\* rest is not negative
Corrected(q, w, c) ==
    IF w >= 0 THEN [q |-> q, r |-> w]
    ELSE IF w + c >= 0 THEN [q |-> q - 1, r |-> w + c]
    ELSE [q |-> q - 2, r |-> w + 2 * c]

\* the digit estimated from the leading limb c1 of the divisor: at most 2 too
\* large when c1 >= 2^14
Estimate(r, c1) == IF r \div c1 < Limb THEN r \div c1 ELSE Limb - 1

Estimated(h, n, c, digit) ==
    Corrected(h.q * Limb + digit,
              (h.r - digit * (c \div Limb)) * Limb + n - digit * (c % Limb), c)

\* One step of the division by c, where c < 2^15 or 2^29 <= c < 2^30: from the
\* quotient h.q and the remainder h.r < c to those of h.r * 2^15 + n
DivStep(h, n, c) ==
    IF c < Limb
    THEN [q |-> h.q * Limb + ((h.r * Limb + n) \div c), r |-> (h.r * Limb + n) % c]
    ELSE Estimated(h, n, c, Estimate(h.r, c \div Limb))

\* the quotient and the remainder of the limbs n[i], ..., n[6] by c
RECURSIVE LongDivision(_, _, _)
LongDivision(n, i, c) ==
    IF i > 6 THEN [q |-> 0, r |-> 0]
    ELSE DivStep(LongDivision(n, i + 1, c), n[i], c)

\* the k < 15 with 2^29 <= c * 2^k < 2^30, 0 for c < 2^15
Shift(c) ==
    IF c < Limb THEN 0 ELSE CHOOSE j \in 0..14 : 2^(29 - j) <= c /\ c < 2^(30 - j)

Unshifted(h, k) == [q |-> h.q, r |-> h.r \div 2^k]

Shifted(a, b, c, k) ==
    Unshifted(LongDivision(ProductLimbs(a, b, k), 0, c * 2^k), k)

\* a * b = q * c + r with 0 <= r < c, for 0 <= a, b < 2^31 and 0 < c < 2^30,
\* without forming a * b where that leaves the 32-bit integers
MulDivRem(a, b, c) ==
    IF a = 0 \/ b <= 2147483647 \div a
    THEN [q |-> (a * b) \div c, r |-> (a * b) % c]
    ELSE IF c = One THEN MulOneRem(a, b)
    ELSE Shifted(a, b, c, Shift(c))

\* the quotient rounded down
Floor(h, negative) ==
    IF negative THEN (IF h.r = 0 THEN -h.q ELSE -h.q - 1) ELSE h.q

\* (a * b) \div c for c # 0, rounded down
MulDiv(a, b, c) ==
    Floor(MulDivRem(Abs(a), Abs(b), Abs(c)), (a < 0) # ((b < 0) # (c < 0)))

\* bus.angle as f64 * PI / 180.0, the angle stored in whole degrees
to_radians(deg) == deg * 17453293

\* f64::to_degrees of an angle in fixed point, the result in units of 1e-6 degree
to_degrees_fp(u) == MulDiv(u, 5729578, 100000000)

\* the initial v and delta
InitialV(buses, slack) ==
    [id \in {buses[p].bus_id : p \in DOMAIN buses} |->
        IF id = slack THEN One
        ELSE buses[CHOOSE p \in DOMAIN buses : buses[p].bus_id = id].voltage]

InitialDelta(buses, slack) ==
    [id \in {buses[p].bus_id : p \in DOMAIN buses} |->
        IF id = slack THEN 0
        ELSE to_radians(buses[CHOOSE p \in DOMAIN buses : buses[p].bus_id = id].angle)]

\* the mismatch vector delta_p_q, each entry by the quantity and bus it holds
MismatchOrder(buses, slack) ==
    LET NonSlack(b) == b.bus_id # slack
        Pq(b) == b.bus_type = "PQ"
        ns == SelectSeq(buses, NonSlack)
        pq == SelectSeq(buses, Pq)
    IN  [k \in DOMAIN ns |-> <<"dP", ns[k].bus_id>>]
        \o [k \in DOMAIN pq |-> <<"dQ", pq[k].bus_id>>]

\* non_slack_bus_to_idx and pq_bus_to_idx
RECURSIVE JacobianIndex(_, _, _, _)
JacobianIndex(buses, slack, p, maps) ==
    IF p > Len(buses) THEN maps
    ELSE IF buses[p].bus_id = slack THEN JacobianIndex(buses, slack, p + 1, maps)
    ELSE LET ns == Insert(maps.non_slack_bus_to_idx, buses[p].bus_id,
                          maps.current_non_slack_idx)
             withNs == [maps EXCEPT !.non_slack_bus_to_idx = ns,
                                    !.current_non_slack_idx = @ + 1]
         IN  IF buses[p].bus_type = "PQ"
             THEN JacobianIndex(buses, slack, p + 1,
                     [withNs EXCEPT
                        !.pq_bus_to_idx = Insert(@, buses[p].bus_id,
                                                 maps.current_pq_idx),
                        !.current_pq_idx = @ + 1])
             ELSE JacobianIndex(buses, slack, p + 1, withNs)

\* index maps whose num_pq counts the PV buses with the PQ buses
IndexMapsCountingPv(buses, slack) ==
    [JacobianIndex(buses, slack, 1,
        [non_slack_bus_to_idx |-> EmptyMap, pq_bus_to_idx |-> EmptyMap,
         current_non_slack_idx |-> 0, current_pq_idx |-> 0])
     EXCEPT !.current_pq_idx =
        Cardinality({p \in DOMAIN buses : buses[p].bus_type \in {"PQ", "PV"}})]

IndexMaps(buses, slack) ==
    JacobianIndex(buses, slack, 1,
        [non_slack_bus_to_idx |-> EmptyMap, pq_bus_to_idx |-> EmptyMap,
         current_non_slack_idx |-> 0, current_pq_idx |-> 0])

\* *v.get_mut(&bus_id).unwrap() *= 1.0 + delta_v_div_v
MulRelative(vv, dv) == vv + MulDiv(vv, dv, One)

Max(a, b) == IF a >= b THEN a ELSE b

At(x, i) == IF i \in DOMAIN x THEN x[i] ELSE 0

\* the update without the test that skips the slack bus
RECURSIVE UpdateWalkNoSkip(_, _, _, _, _, _)
UpdateWalkNoSkip(buses, slack, x, p, current_delta_x_idx, st) ==
    IF p > Len(buses) THEN st
    ELSE LET bus_id == buses[p].bus_id
             delta_delta == At(x, current_delta_x_idx + 1)
             st1 == [st EXCEPT !.delta[bus_id] = @ + delta_delta,
                               !.max_mismatch = Max(@, Abs(delta_delta))]
         IN  IF buses[p].bus_type = "PQ"
             THEN LET delta_v_div_v == At(x, current_delta_x_idx + 2)
                  IN  UpdateWalkNoSkip(buses, slack, x, p + 1, current_delta_x_idx + 2,
                         [st1 EXCEPT !.v[bus_id] = MulRelative(@, delta_v_div_v),
                                     !.max_mismatch = Max(@, Abs(delta_v_div_v))])
             ELSE UpdateWalkNoSkip(buses, slack, x, p + 1, current_delta_x_idx + 1, st1)

\* The update of voltage magnitudes and angles.  x is delta_x, the entry of
\* the code's index i at x[i + 1].
RECURSIVE UpdateWalk(_, _, _, _, _, _)
UpdateWalk(buses, slack, x, p, current_delta_x_idx, st) ==
    IF p > Len(buses) THEN st
    ELSE IF buses[p].bus_id = slack
         THEN UpdateWalk(buses, slack, x, p + 1, current_delta_x_idx, st)
    ELSE LET bus_id == buses[p].bus_id
             delta_delta == x[current_delta_x_idx + 1]
             st1 == [st EXCEPT !.delta[bus_id] = @ + delta_delta,
                               !.max_mismatch = Max(@, Abs(delta_delta))]
         IN  IF buses[p].bus_type = "PQ"
             THEN LET delta_v_div_v == x[current_delta_x_idx + 2]
                  IN  UpdateWalk(buses, slack, x, p + 1, current_delta_x_idx + 2,
                         [st1 EXCEPT !.v[bus_id] = MulRelative(@, delta_v_div_v),
                                     !.max_mismatch = Max(@, Abs(delta_v_div_v))])
             ELSE UpdateWalk(buses, slack, x, p + 1, current_delta_x_idx + 1, st1)

\* The passes (values of iter) at which a correction of exactly the tolerance
\* is among those considered: the first and the last.
EdgePasses == {0, max_iterations - 1}

\* The corrections jacobian.try_inverse() * delta_p_q may return for a system
\* of the given size: one that leaves every entry at or above the tolerance,
\* one whose largest entry is the tolerance exactly (and negative), and one
\* below it.
Corrections(size, pass) ==
    {[k \in 1..size |-> 5 * tolerance * k],
     [k \in 1..size |-> IF k = 1 THEN tolerance - 1 ELSE 0]}
    \cup IF pass \in EdgePasses
         THEN {[k \in 1..size |-> IF k = 1 THEN -tolerance ELSE 0]}
         ELSE {}

\* the convergence test with <= for <
ConvergedInclusive(max_mismatch) == max_mismatch <= tolerance

\* if max_mismatch < tolerance
Converged(max_mismatch) == max_mismatch < tolerance

\* the loop with one pass more
LoopContinuesInclusive(i) == i <= max_iterations

\* for iter in 0..max_iterations
LoopContinues(i) == i < max_iterations

\* a converged solution that leaves the slack bus out of bus_angles
SolutionNonSlack(buses, vv, dd, log) ==
    [bus_voltages |-> [id \in {buses[p].bus_id : p \in DOMAIN buses} |-> vv[id]],
     bus_angles |-> [id \in {buses[p].bus_id :
                                 p \in {q \in DOMAIN buses :
                                          buses[q].bus_type # "Slack"}} |->
                        to_degrees_fp(dd[id])],
     log |-> log]

\* the AcSolution of a converged run
Solution(buses, vv, dd, log) ==
    [bus_voltages |-> [id \in {buses[p].bus_id : p \in DOMAIN buses} |-> vv[id]],
     bus_angles |-> [id \in {buses[p].bus_id : p \in DOMAIN buses} |->
                        to_degrees_fp(dd[id])],
     log |-> log]

Return(sol) ==
    /\ nr_pc' = "done"
    /\ ac_sol' = <<sol>>
    /\ log_messages' = sol.log

\* Branch with the fields the Y-bus is built from (all per unit, exact)
AcBranch(id, from, to, status, r, x, g_from, b_from, g_to, b_to, tap, shift) ==
    [id |-> id, from_bus |-> from, to_bus |-> to, branch_status |-> status,
     resistance |-> r, reactance |-> x,
     from_shunt_conductance |-> g_from, from_shunt_susceptance |-> b_from,
     to_shunt_conductance |-> g_to, to_shunt_susceptance |-> b_to,
     tap_ratio |-> tap, phase_shift |-> shift]

FixedShunt(bus, status, gl, bl) ==
    [bus_id |-> bus, status |-> status, gl |-> gl, bl |-> bl]

Complex(re, im) == [re |-> re, im |-> im]
CZero == Complex(RZero, RZero)
CAdd(a, b) == Complex(RAdd(a.re, b.re), RAdd(a.im, b.im))
CNeg(a) == Complex(RNeg(a.re), RNeg(a.im))

RECURSIVE CSum(_)
CSum(s) == IF s = << >> THEN CZero ELSE CAdd(Head(s), CSum(Tail(s)))

\* bus_idx_map: bus_id -> position in the bus list
RECURSIVE InsertIdx(_, _, _)
InsertIdx(buses, p, m) ==
    IF p > Len(buses) THEN m
    ELSE InsertIdx(buses, p + 1, Insert(m, buses[p].bus_id, p - 1))

BusIdxMap(buses) == InsertIdx(buses, 1, EmptyMap)

\* let y_series = if z.norm_sqr() == 0.0 { 0 } else { 1.0 / z }
y_series(branch) ==
    LET r == branch.resistance
        x == branch.reactance
        norm_sqr == RAdd(RMul(r, r), RMul(x, x))
    IN  IF norm_sqr.num = 0 THEN CZero
        ELSE Complex(RDiv(r, norm_sqr), RNeg(RDiv(x, norm_sqr)))

\* the triplets of one branch with only the first off-diagonal one
YbusTripletsOneSided(branch, from_idx, to_idx, r, c) ==
    LET y == y_series(branch)
        Trpl(i, j, val) == IF r = i /\ c = j THEN val ELSE CZero
    IN  CSum(<<Trpl(from_idx, from_idx, y), Trpl(to_idx, to_idx, y),
               Trpl(from_idx, to_idx, CNeg(y))>>)

\* The triplets one in-service branch appends to ybus_g_trpl and ybus_b_trpl,
\* as their sum at (r, c).
YbusTriplets(branch, from_idx, to_idx, r, c) ==
    LET y == y_series(branch)
        y_shunt_from == Complex(RZero, branch.from_shunt_susceptance)
        y_shunt_to == Complex(RZero, branch.to_shunt_susceptance)
        Trpl(i, j, val) == IF r = i /\ c = j THEN val ELSE CZero
    IN  CSum(<<Trpl(from_idx, from_idx, CAdd(y, y_shunt_from)),
               Trpl(to_idx, to_idx, CAdd(y, y_shunt_to)),
               Trpl(from_idx, to_idx, CNeg(y)),
               Trpl(to_idx, from_idx, CNeg(y))>>)

\* the triplets of one in-service fixed shunt
ShuntTriplets(n, shunt, bus_idx, r, c) ==
    IF r = bus_idx /\ c = bus_idx
    THEN Complex(Rat(shunt.gl, n.s_base), Rat(shunt.bl, n.s_base))
    ELSE CZero

\* build_ybus_matrix; every in-service branch and fixed shunt names a bus of
\* bus_idx_map (the unwrap()s are taken before, see UnwrapOfNone)
build_ybus_matrix(n, bus_idx_map) ==
    LET num_buses == Len(n.buses)
    IN  [rc \in (0..(num_buses - 1)) \X (0..(num_buses - 1)) |->
           CAdd(CSum([k \in DOMAIN n.branches |->
                        LET branch == n.branches[k]
                        IN  IF ~branch.branch_status THEN CZero
                            ELSE YbusTriplets(branch,
                                    bus_idx_map[branch.from_bus],
                                    bus_idx_map[branch.to_bus], rc[1], rc[2])]),
                CSum([k \in DOMAIN n.fixed_shunts |->
                        LET shunt == n.fixed_shunts[k]
                        IN  IF ~shunt.status THEN CZero
                            ELSE ShuntTriplets(n, shunt, bus_idx_map[shunt.bus_id],
                                               rc[1], rc[2])]))]

\* One of the unwrap() calls on p_scheduled.get_mut / bus_idx_map.get meets
\* None: the call panics.
UnwrapOfNone(n) ==
    LET ids == {n.buses[p].bus_id : p \in DOMAIN n.buses}
    IN  \/ \E k \in DOMAIN n.generators :
              n.generators[k].gen_status /\ n.generators[k].gen_bus_id \notin ids
        \/ \E k \in DOMAIN n.loads : n.loads[k].bus_id \notin ids
        \/ \E k \in DOMAIN n.branches :
              /\ n.branches[k].branch_status
              /\ \/ n.branches[k].from_bus \notin ids
                 \/ n.branches[k].to_bus \notin ids
        \/ \E k \in DOMAIN n.fixed_shunts :
              n.fixed_shunts[k].status /\ n.fixed_shunts[k].bus_id \notin ids

\* from the call to the first pass of the iteration loop
NRStart ==
    /\ nr_pc = "called"
    /\ LET log0 == <<Msg(MsgStart, << >>)>>
           buses == net.buses
           slack == SlackBusId(buses)
       IN  IF Len(buses) = 0
           THEN /\ Return(EmptySolution(Append(log0, Msg(MsgNoBuses, << >>))))
                /\ UNCHANGED <<iter, v, delta, v_prev, delta_prev, delta_x, y_bus>>
           ELSE IF SecondSlack(buses) # 0
           THEN /\ Return(EmptySolution(Append(log0, Msg(MsgMultipleSlack, << >>))))
                /\ UNCHANGED <<iter, v, delta, v_prev, delta_prev, delta_x, y_bus>>
           ELSE IF slack = << >>
           THEN /\ Return(EmptySolution(Append(log0, Msg(MsgNoSlack, << >>))))
                /\ UNCHANGED <<iter, v, delta, v_prev, delta_prev, delta_x, y_bus>>
           ELSE IF UnwrapOfNone(net)
           THEN /\ nr_pc' = "panicked"
                /\ UNCHANGED <<iter, v, delta, v_prev, delta_prev, delta_x,
                               log_messages, ac_sol, y_bus>>
           ELSE /\ log_messages' = log0 \o
                      <<Msg(MsgSlackId, slack),
                        Msg(MsgPv, IdsOfType(buses, "PV")),
                        Msg(MsgPq, IdsOfType(buses, "PQ")),
                        Msg(MsgYbus, << >>)>>
                /\ v' = InitialV(buses, slack[1])
                /\ delta' = InitialDelta(buses, slack[1])
                /\ v_prev' = v' /\ delta_prev' = delta'
                /\ iter' = 0
                /\ nr_pc' = "iterating"
                /\ y_bus' = <<build_ybus_matrix(net, BusIdxMap(buses))>>
                /\ UNCHANGED <<delta_x, ac_sol>>
    /\ UNCHANGED <<net, mapVars, parseVars, dcVars, srvVars>>

\* one pass of for iter in 0..max_iterations
NRIterate ==
    /\ nr_pc = "iterating"
    /\ LoopContinues(iter)
    /\ LET buses == net.buses
           slack == SlackBusId(buses)[1]
           maps == IndexMaps(buses, slack)
           size == maps.current_non_slack_idx + maps.current_pq_idx
           log1 == log_messages \o <<Msg(MsgIteration, <<iter + 1>>),
                                     Msg(MsgJacobian, <<iter + 1>>)>>
       IN  \/ \* jacobian.try_inverse() is None
              /\ size > 0
              /\ Return(EmptySolution(Append(log1, Msg(MsgSingular, << >>))))
              /\ UNCHANGED <<iter, v, delta, v_prev, delta_prev, delta_x>>
           \/ \E x \in Corrections(size, iter) :
                LET st == UpdateWalk(buses, slack, x, 1, 0,
                              [v |-> v, delta |-> delta, max_mismatch |-> 0])
                    log2 == log1 \o <<Msg(MsgCorrections, <<iter + 1>>),
                                      Msg(MsgMaxMismatch, <<iter + 1>>)>>
                IN  /\ delta_x' = x
                    /\ v_prev' = v /\ delta_prev' = delta
                    /\ v' = st.v /\ delta' = st.delta
                    /\ IF Converged(st.max_mismatch)
                       THEN /\ Return(Solution(buses, st.v, st.delta,
                                   Append(log2, Msg(MsgConverged, <<iter + 1>>))))
                            /\ UNCHANGED iter
                       ELSE /\ log_messages' = log2
                            /\ iter' = iter + 1
                            /\ UNCHANGED <<nr_pc, ac_sol>>
    /\ UNCHANGED <<net, mapVars, parseVars, dcVars, srvVars, y_bus>>

\* the loop ran max_iterations passes
NRExhausted ==
    /\ nr_pc = "iterating"
    /\ ~LoopContinues(iter)
    /\ Return(EmptySolution(Append(log_messages, Msg(MsgFailed, <<max_iterations>>))))
    /\ UNCHANGED <<iter, v, delta, v_prev, delta_prev, delta_x>>
    /\ UNCHANGED <<net, mapVars, parseVars, dcVars, srvVars, y_bus>>

-----------------------------------------------------------------------------
(* Networks the Newton-Raphson solver is applied to: every mix of bus      *)
(* types, with a flat start or with 1.05 pu and -3 degrees stored on every *)
(* bus (the slack bus too).                                                *)

StoredProfiles == {[voltage |-> One, angle |-> 0],
                   [voltage |-> One + One \div 20, angle |-> -3]}

InitNR ==
    /\ \E k \in 0..MaxNrBuses :
         \E types \in [1..k -> BusTypes] :
           \E stored \in StoredProfiles :
             net = rebuild_bus_map(
                     [NewNetwork EXCEPT !.buses =
                        [p \in 1..k |-> Bus(p, types[p], stored.voltage, stored.angle)]])
    /\ nr_pc = "called" /\ iter = 0 /\ v = EmptyMap /\ delta = EmptyMap
    /\ v_prev = EmptyMap /\ delta_prev = EmptyMap
    /\ delta_x = << >> /\ log_messages = << >> /\ ac_sol = << >>
    /\ y_bus = << >>
    /\ IdleMap /\ IdleParse /\ IdleDc /\ IdleSrv

NextNR == NRStart \/ NRIterate \/ NRExhausted

SpecNR == InitNR /\ [][NextNR]_vars

\* the same steps, with the call never left unfinished
SpecNRFair == InitNR /\ [][NextNR]_vars /\ WF_vars(NextNR)

-----------------------------------------------------------------------------
(* Properties of newton_raphson_solution *)

LogHas(log, text) == \E k \in DOMAIN log : log[k].msg = text
Entries(log, text) == {k \in DOMAIN log : log[k].msg = text}
LastMsg(log) == log[Len(log)].msg
SlackCount(buses) == Cardinality({p \in DOMAIN buses : buses[p].bus_type = "Slack"})
IsEmptySolution(sol) == sol.bus_voltages = EmptyMap /\ sol.bus_angles = EmptyMap
Returned == nr_pc = "done"
Updated == nr_pc \in {"iterating", "done"} /\ delta_x # << >>

\* C3: in every iteration, the angle of each non-slack bus grows by the entry of
\* x at the bus's non_slack_bus_to_idx, and the voltage of each PQ bus is
\* multiplied by one plus the entry of x at n_ns + its pq_bus_to_idx: no bus is
\* given the correction of another bus or of another quantity.
C3_UpdateReadsOwnEntry ==
    Updated =>
        LET buses == net.buses
            slack == SlackBusId(buses)[1]
            maps == IndexMaps(buses, slack)
            n_ns == maps.current_non_slack_idx
        IN  \A p \in DOMAIN buses :
              LET id == buses[p].bus_id
              IN  id # slack =>
                    /\ delta[id] - delta_prev[id] =
                          delta_x[maps.non_slack_bus_to_idx[id] + 1]
                    /\ buses[p].bus_type = "PQ" =>
                          v[id] = MulRelative(v_prev[id],
                                     delta_x[n_ns + maps.pq_bus_to_idx[id] + 1])

\* C4: the slack bus keeps V = 1.0 and delta = 0 through every iteration, and
\* every non-empty solution returned reports it with voltage 1.0 and angle 0
\* degrees, whatever is stored on the slack bus.
C4_SlackFixed ==
    /\ nr_pc = "iterating" =>
          LET slack == SlackBusId(net.buses)[1]
          IN  v[slack] = One /\ delta[slack] = 0
    /\ (Returned /\ ~IsEmptySolution(ac_sol[1])) =>
          LET slack == SlackBusId(net.buses)[1]
          IN  /\ ac_sol[1].bus_voltages[slack] = One
              /\ ac_sol[1].bus_angles[slack] = 0

C4_Witness ==
    /\ Returned /\ ~IsEmptySolution(ac_sol[1])
    /\ iter >= 2
    /\ Len(net.buses) = MaxNrBuses
    /\ \E p \in DOMAIN net.buses :
          /\ net.buses[p].bus_type = "Slack"
          /\ net.buses[p].voltage # One /\ net.buses[p].angle # 0
    /\ \E p \in DOMAIN net.buses : net.buses[p].bus_type = "PQ"

\* C5: a network is accepted only with exactly one SLACK bus: with two or more
\* the call returns an empty solution whose log has the "Multiple slack" entry,
\* with buses but no SLACK bus an empty solution whose log has the "No slack"
\* entry, and in both cases no iteration was started.
C5_OneSlackRequired ==
    /\ nr_pc = "iterating" => SlackCount(net.buses) = 1
    /\ (Returned /\ Len(net.buses) >= 1 /\ SlackCount(net.buses) # 1) =>
          /\ IsEmptySolution(ac_sol[1])
          /\ SlackCount(net.buses) >= 2 => LogHas(ac_sol[1].log, MsgMultipleSlack)
          /\ SlackCount(net.buses) = 0 => LogHas(ac_sol[1].log, MsgNoSlack)
          /\ ~LogHas(ac_sol[1].log, MsgIteration)
          /\ iter = 0 /\ delta_x = << >>

C5_Witness ==
    /\ Returned
    /\ SlackCount(net.buses) = 2
    /\ \E p \in DOMAIN net.buses : net.buses[p].bus_type = "PQ"
    /\ LastMsg(ac_sol[1].log) = MsgMultipleSlack

\* C6: a returned solution is a failure with bus_voltages and bus_angles both
\* empty, or a converged one in which both have an entry for every bus of the
\* network, the slack bus included; no solution is filled in part.
C6_EmptyOrComplete ==
    Returned =>
        LET sol == ac_sol[1]
            ids == {net.buses[p].bus_id : p \in DOMAIN net.buses}
        IN  IF LastMsg(sol.log) = MsgConverged
            THEN /\ ids # {}
                 /\ DOMAIN sol.bus_voltages = ids
                 /\ DOMAIN sol.bus_angles = ids
            ELSE IsEmptySolution(sol)

C6_Witness ==
    /\ Returned
    /\ LastMsg(ac_sol[1].log) = MsgConverged
    /\ Cardinality(DOMAIN ac_sol[1].bus_voltages) = MaxNrBuses
    /\ \E p \in DOMAIN net.buses : net.buses[p].bus_type = "OOS"
    /\ \E p \in DOMAIN net.buses : net.buses[p].bus_type = "PV"

\* C7: the call always returns, after at most 100 iterations: no iteration
\* entry of the log is numbered above 100, and when all 100 passes ran without
\* meeting the convergence test the solution is empty and its log ends with the
\* "failed to converge" entry.
C7_ReturnsWithin100Iterations ==
    /\ [](/\ iter <= max_iterations
          /\ \A k \in Entries(log_messages, MsgIteration) :
                log_messages[k].args[1] <= max_iterations
          /\ Cardinality(Entries(log_messages, MsgIteration)) <= max_iterations
          /\ (Returned /\ iter = max_iterations) =>
                /\ IsEmptySolution(ac_sol[1])
                /\ LastMsg(ac_sol[1].log) = MsgFailed
                /\ Cardinality(Entries(ac_sol[1].log, MsgIteration)) = max_iterations)
    /\ <>Returned

C7_Witness ==
    /\ Returned
    /\ iter = max_iterations
    /\ LastMsg(ac_sol[1].log) = MsgFailed
    /\ delta_x # << >> /\ delta_x[1] = -tolerance

OutcomeMsgs ==
    {MsgConverged, MsgFailed, MsgSingular, MsgNoBuses, MsgMultipleSlack, MsgNoSlack}

\* C8: a call ends in exactly one outcome and stays there: the log of a returned
\* solution has one outcome entry and it is the last entry, a call still
\* running has none; it ends Converged only from an iteration whose
\* corrections are all below 1e-6 in absolute value; a singular Jacobian ends
\* it in the iteration that formed the Jacobian, with an empty solution; and
\* nothing happens after the call returned.
C8_OneTerminalOutcome ==
    /\ [](/\ ~Returned => \A k \in DOMAIN log_messages :
                              log_messages[k].msg \notin OutcomeMsgs
          /\ Returned =>
                LET log == ac_sol[1].log
                    n == Len(log)
                IN  /\ {k \in DOMAIN log : log[k].msg \in OutcomeMsgs} = {n}
                    /\ log[n].msg = MsgConverged =>
                          /\ ~IsEmptySolution(ac_sol[1])
                          /\ \A k \in DOMAIN delta_x : Abs(delta_x[k]) < tolerance
                    /\ log[n].msg = MsgSingular =>
                          /\ IsEmptySolution(ac_sol[1])
                          /\ log[n - 1] = Msg(MsgJacobian, <<iter + 1>>)
                          /\ log[n - 2] = Msg(MsgIteration, <<iter + 1>>)
                          /\ Cardinality(Entries(log, MsgIteration)) = iter + 1)
    /\ [][~Returned]_vars

C8_Witness ==
    /\ Returned
    /\ LastMsg(ac_sol[1].log) = MsgSingular
    /\ iter >= 2
    /\ delta_x # << >>

-----------------------------------------------------------------------------
(* server.rs: the handlers that replace the network or change its buses.   *)
(* state is the Option<Network> behind the mutex, req the handler of the   *)
(* latest request and resp the status code of its response.                *)

SrvBusTypes == {"Slack", "PQ", "OOS"}

\* the network a file or a JSON body describes: buses with any ids
Described(ids, types) ==
    [NewNetwork EXCEPT
       !.buses = [p \in 1..Len(ids) |-> Bus(ids[p], types[p], One, 0)]]

\* parse.rs: parse_raw_str ends by filling bus_map
parse_raw_str(content) ==
    [content EXCEPT !.bus_map = InsertNonSlack(content.buses, 1, 0, EmptyMap)]

\* serde_json::from_value::<Network>: bus_map is #[serde(skip)]
from_value(body) == [body EXCEPT !.bus_map = EmptyMap]

MaxId(buses) ==
    IF buses = << >> THEN << >>
    ELSE <<CHOOSE m \in {buses[p].bus_id : p \in DOMAIN buses} :
              \A p \in DOMAIN buses : buses[p].bus_id <= m>>

\* let new_id = ...max().map(|m| m + 1).unwrap_or(1)
NewBusId(buses) == IF MaxId(buses) = << >> THEN 1 ELSE MaxId(buses)[1] + 1

\* an add_bus that pushes the bus with the bus_id of the request body
AddBusWithBodyId(n, body) ==
    rebuild_bus_map([n EXCEPT !.buses = Append(@, body)])

AddBusTo(n, body) ==
    rebuild_bus_map(
        [n EXCEPT !.buses = Append(@, [body EXCEPT !.bus_id = NewBusId(n.buses)])])

\* net.buses.iter_mut().find(|b| b.bus_id == id)
Find(buses, id) ==
    LET at == {p \in DOMAIN buses : buses[p].bus_id = id}
    IN  IF at = {} THEN 0 ELSE CHOOSE p \in at : \A q \in at : p <= q

UpdateBusIn(n, id, updated) ==
    rebuild_bus_map([n EXCEPT !.buses[Find(n.buses, id)] = updated])

\* delete_bus without its last call
DeleteBusStale(n, id) ==
    LET KeepBus(b) == b.bus_id # id
        KeepBranch(b) == b.from_bus # id /\ b.to_bus # id
        KeepGen(g) == g.gen_bus_id # id
        KeepAt(x) == x.bus_id # id
    IN  [n EXCEPT !.buses = SelectSeq(@, KeepBus),
                  !.branches = SelectSeq(@, KeepBranch),
                  !.generators = SelectSeq(@, KeepGen),
                  !.loads = SelectSeq(@, KeepAt),
                  !.fixed_shunts = SelectSeq(@, KeepAt),
                  !.switched_shunts = SelectSeq(@, KeepAt)]

\* a delete_bus that cascades before it looks whether a bus went
CascadeBeforeCheck(n, id) == DeleteBusStale(n, id)

\* the network when delete_bus answers "Bus not found": retain has run on the
\* buses, the cascade has not
BusNotFound(n, id) ==
    LET KeepBus(b) == b.bus_id # id
    IN  [n EXCEPT !.buses = SelectSeq(@, KeepBus)]

\* a cascade that reaches branches, generators and loads only
DeleteBusKeepingShunts(n, id) ==
    LET KeepBus(b) == b.bus_id # id
        KeepBranch(b) == b.from_bus # id /\ b.to_bus # id
        KeepGen(g) == g.gen_bus_id # id
        KeepAt(x) == x.bus_id # id
    IN  rebuild_bus_map(
          [n EXCEPT !.buses = SelectSeq(@, KeepBus),
                    !.branches = SelectSeq(@, KeepBranch),
                    !.generators = SelectSeq(@, KeepGen),
                    !.loads = SelectSeq(@, KeepAt)])

DeleteBusFrom(n, id) ==
    LET KeepBus(b) == b.bus_id # id
        KeepBranch(b) == b.from_bus # id /\ b.to_bus # id
        KeepGen(g) == g.gen_bus_id # id
        KeepAt(x) == x.bus_id # id
    IN  rebuild_bus_map(
          [n EXCEPT !.buses = SelectSeq(@, KeepBus),
                    !.branches = SelectSeq(@, KeepBranch),
                    !.generators = SelectSeq(@, KeepGen),
                    !.loads = SelectSeq(@, KeepAt),
                    !.fixed_shunts = SelectSeq(@, KeepAt),
                    !.switched_shunts = SelectSeq(@, KeepAt)])

Respond(handler, status) == req' = handler /\ resp' = status

SrvUnchanged == UNCHANGED <<net, mapVars, parseVars, dcVars, nrVars, conVars>>

\* POST /api/upload
upload_raw ==
    /\ \/ \E k \in 0..MaxBodyBuses :
            \E ids \in [1..k -> 1..MaxBusId], types \in [1..k -> SrvBusTypes] :
              /\ state' = <<rebuild_bus_map(parse_raw_str(Described(ids, types)))>>
              /\ Respond("upload_raw", 200)
       \/ \* no field named "file"
          Respond("upload_raw", 400) /\ UNCHANGED state
    /\ SrvUnchanged

\* PUT /api/network
put_network ==
    /\ \/ \E k \in 0..MaxBodyBuses :
            \E ids \in [1..k -> 1..MaxBusId], types \in [1..k -> SrvBusTypes] :
              /\ state' = <<rebuild_bus_map(from_value(Described(ids, types)))>>
              /\ Respond("put_network", 200)
       \/ \* the body is no Network
          Respond("put_network", 400) /\ UNCHANGED state
    /\ SrvUnchanged

\* POST /api/network/new
new_network ==
    /\ state' = <<NewNetwork>>
    /\ Respond("new_network", 200)
    /\ SrvUnchanged

\* POST /api/buses
add_bus ==
    /\ IF state = << >>
       THEN Respond("add_bus", 404) /\ UNCHANGED state
       ELSE \/ \E id \in 1..MaxBusId, type \in SrvBusTypes :
                 /\ Len(state[1].buses) < MaxSrvBuses
                 /\ NewBusId(state[1].buses) <= MaxBusId
                 /\ state' = <<AddBusTo(state[1], Bus(id, type, One, 0))>>
                 /\ Respond("add_bus", 200)
            \/ \* the body is no Bus
               Respond("add_bus", 400) /\ UNCHANGED state
    /\ SrvUnchanged

\* PUT /api/buses/:id
update_bus ==
    /\ \E id \in 1..MaxBusId :
         IF state = << >>
         THEN Respond("update_bus", 404) /\ UNCHANGED state
         ELSE IF Find(state[1].buses, id) = 0
         THEN Respond("update_bus", 404) /\ UNCHANGED state
         ELSE \/ \E body_id \in 1..MaxBusId, type \in SrvBusTypes :
                   /\ state' = <<UpdateBusIn(state[1], id, Bus(body_id, type, One, 0))>>
                   /\ Respond("update_bus", 200)
              \/ \* the body is no Bus
                 Respond("update_bus", 400) /\ UNCHANGED state
    /\ SrvUnchanged

\* DELETE /api/buses/:id
delete_bus ==
    /\ \E id \in 1..MaxBusId :
         IF state = << >>
         THEN Respond("delete_bus", 404) /\ UNCHANGED state
         ELSE IF Find(state[1].buses, id) = 0
         THEN Respond("delete_bus", 404) /\ state' = <<BusNotFound(state[1], id)>>
         ELSE /\ state' = <<DeleteBusFrom(state[1], id)>>
              /\ Respond("delete_bus", 200)
    /\ SrvUnchanged

\* run_server: let state: AppState = Arc::new(Mutex::new(None))
InitServer ==
    /\ state = << >> /\ req = "none" /\ resp = 0
    /\ net = NewNetwork
    /\ IdleMap /\ IdleParse /\ IdleDc /\ IdleNr /\ IdleCon

NextServer ==
    upload_raw \/ put_network \/ new_network \/ add_bus \/ update_bus \/ delete_bus

SpecServer == InitServer /\ [][NextServer]_vars

\* the non-slack buses numbered from 0 in list order (of two buses with one id
\* the later one gives the number)
NumberedNonSlack(buses) ==
    LET NonSlack(b) == b.bus_type # "Slack"
        ns == SelectSeq(buses, NonSlack)
    IN  [id \in {ns[k].bus_id : k \in DOMAIN ns} |->
            (CHOOSE k \in DOMAIN ns :
                /\ ns[k].bus_id = id
                /\ \A j \in DOMAIN ns : ns[j].bus_id = id => j <= k) - 1]

\* C10: in every state of the server the stored bus_map is the map that numbers
\* the current non-slack buses from 0 in list order; no upload, PUT network,
\* add_bus, update_bus or delete_bus leaves a stale bus_map behind.
C10_BusMapNeverStale ==
    state # << >> => state[1].bus_map = NumberedNonSlack(state[1].buses)

C10_Witness ==
    /\ state # << >>
    /\ req = "delete_bus" /\ resp = 200
    /\ Len(state[1].buses) = 2
    /\ state[1].buses[1].bus_type = "Slack"
    /\ state[1].buses[2].bus_type # "Slack"
    /\ state[1].buses[2].bus_id = MaxBusId
    /\ state[1].bus_map # EmptyMap

-----------------------------------------------------------------------------
(* server.rs: editing a loaded network, its buses and its branches *)

\* let new_id = ...max().map(|m| m + 1).unwrap_or(0)
NewBranchId(branches) ==
    IF branches = << >> THEN 0
    ELSE 1 + CHOOSE m \in {branches[p].id : p \in DOMAIN branches} :
                 \A p \in DOMAIN branches : branches[p].id <= m

AddBranchTo(n, body) ==
    [n EXCEPT !.branches = Append(@, [body EXCEPT !.id = NewBranchId(n.branches)])]

\* net.branches.iter_mut().find(|b| b.id == id)
FindBranch(branches, id) ==
    LET at == {p \in DOMAIN branches : branches[p].id = id}
    IN  IF at = {} THEN 0 ELSE CHOOSE p \in at : \A q \in at : p <= q

UpdateBranchIn(n, id, updated) ==
    [n EXCEPT !.branches[FindBranch(n.branches, id)] = updated]

\* POST /api/branches
add_branch ==
    /\ IF state = << >>
       THEN Respond("add_branch", 404) /\ UNCHANGED state
       ELSE \/ \E from \in 1..MaxBusId, to \in 1..MaxBusId :
                 /\ Len(state[1].branches) < MaxSrvBranches
                 /\ state' = <<AddBranchTo(state[1],
                                  Branch(0, from, to, TRUE, Rat(1, 10)))>>
                 /\ Respond("add_branch", 200)
            \/ \* the body is no Branch
               Respond("add_branch", 400) /\ UNCHANGED state
    /\ SrvUnchanged

\* PUT /api/branches/:id
update_branch ==
    /\ \E id \in 0..MaxSrvBranches :
         IF state = << >>
         THEN Respond("update_branch", 404) /\ UNCHANGED state
         ELSE IF FindBranch(state[1].branches, id) = 0
         THEN Respond("update_branch", 404) /\ UNCHANGED state
         ELSE \/ \E body_id \in 0..MaxSrvBranches,
                    from \in 1..MaxBusId, to \in 1..MaxBusId :
                   /\ state' = <<UpdateBranchIn(state[1], id,
                                    Branch(body_id, from, to, TRUE, Rat(1, 10)))>>
                   /\ Respond("update_branch", 200)
              \/ \* the body is no Branch
                 Respond("update_branch", 400) /\ UNCHANGED state
    /\ SrvUnchanged

\* A loaded network with pairwise distinct bus ids, in which every branch has
\* both ends in the bus list.
InitEdit ==
    /\ \E k \in 1..MaxBodyBuses :
         \E types \in [1..k -> SrvBusTypes], joined \in BOOLEAN :
           state = <<rebuild_bus_map(
                       [NewNetwork EXCEPT
                          !.buses = [p \in 1..k |-> Bus(p, types[p], One, 0)],
                          !.branches = IF joined
                                       THEN <<Branch(0, 1, k, TRUE, Rat(1, 10))>>
                                       ELSE << >>])>>
    /\ req = "none" /\ resp = 0
    /\ net = NewNetwork
    /\ IdleMap /\ IdleParse /\ IdleDc /\ IdleNr /\ IdleCon

NextEdit == add_bus \/ update_bus \/ delete_bus \/ add_branch \/ update_branch

SpecEdit == InitEdit /\ [][NextEdit]_vars

\* C11: starting from pairwise distinct bus ids, the bus ids of the network are
\* pairwise distinct after any sequence of add_bus, update_bus and delete_bus
\* requests.
C11_BusIdsStayUnique ==
    state # << >> => DistinctIds(state[1].buses)

\* C12: starting from a network in which every branch has both ends in the bus
\* list, every branch still has both ends in the bus list after any sequence
\* of add_branch, update_branch, add_bus, update_bus and delete_bus requests.
C12_BranchEndsExist ==
    state # << >> =>
        \A p \in DOMAIN state[1].branches :
            /\ state[1].branches[p].from_bus \in BusIds(state[1])
            /\ state[1].branches[p].to_bus \in BusIds(state[1])

-----------------------------------------------------------------------------
(* Networks with branches, loads, generators and fixed shunts, some of them
   naming a bus id that is not in the bus list *)

\* a line with series impedance 0.01 + j0.1 and shunts at both ends
Line(id, from, to, status) ==
    AcBranch(id, from, to, status, Rat(1, 100), Rat(1, 10),
             Rat(1, 50), Rat(1, 20), Rat(1, 25), Rat(1, 40), ROne, RZero)

\* a transformer with an off-nominal tap and a phase shift of 30 degrees
Transformer(id, from, to) ==
    AcBranch(id, from, to, TRUE, RZero, Rat(1, 5),
             RZero, RZero, RZero, RZero, Rat(21, 20), RInt(30))

\* a branch with R = 0 and X = 0 that still carries line charging
ZeroImpedance(id, from, to) ==
    AcBranch(id, from, to, TRUE, RZero, RZero,
             RZero, Rat(1, 20), RZero, Rat(1, 40), ROne, RZero)

\* k is the last bus id of the network, k + 1 is the id of no bus
NetBranchChoices(k) ==
    {<< >>,
     <<Line(1, 1, k, TRUE)>>,
     <<Line(1, k - 1, k, TRUE), Transformer(2, k, k - 1)>>,
     <<Line(1, 1, k, TRUE), ZeroImpedance(2, 1, k)>>,
     <<ZeroImpedance(1, 1, k)>>,
     <<Line(1, 1, k, TRUE), Line(2, k, k + 1, FALSE)>>,
     <<Line(1, 1, k + 1, TRUE)>>,
     <<Line(1, k + 1, 1, TRUE)>>}

NetAttachmentChoices(k) ==
    LET None == [loads |-> << >>, generators |-> << >>, fixed_shunts |-> << >>]
    IN  {None,
         [None EXCEPT !.loads = <<Load(1, k, 50, 10)>>],
         [None EXCEPT !.loads = <<Load(1, k + 1, 50, 10)>>],
         [None EXCEPT !.generators = <<Generator(1, k + 1, TRUE, 30, 0)>>],
         [None EXCEPT !.generators = <<Generator(1, k + 1, FALSE, 30, 0)>>],
         [None EXCEPT !.fixed_shunts = <<FixedShunt(k, TRUE, 10, 20)>>],
         [None EXCEPT !.fixed_shunts = <<FixedShunt(k + 1, TRUE, 10, 20)>>],
         [None EXCEPT !.fixed_shunts = <<FixedShunt(k + 1, FALSE, 10, 20)>>]}

NetBusTypes == {"PQ", "OOS"}

\* bus 1 is the slack bus, so the call passes the slack checks
InitNRNet ==
    /\ \E k \in 2..MaxNrBuses :
         \E types \in [2..k -> NetBusTypes] :
           \E branches \in NetBranchChoices(k) :
             \E att \in NetAttachmentChoices(k) :
               net = rebuild_bus_map(
                       [NewNetwork EXCEPT
                          !.buses = [p \in 1..k |->
                                       Bus(p, IF p = 1 THEN "Slack" ELSE types[p],
                                           One, 0)],
                          !.branches = branches,
                          !.loads = att.loads,
                          !.generators = att.generators,
                          !.fixed_shunts = att.fixed_shunts])
    /\ nr_pc = "called" /\ iter = 0 /\ v = EmptyMap /\ delta = EmptyMap
    /\ v_prev = EmptyMap /\ delta_prev = EmptyMap
    /\ delta_x = << >> /\ log_messages = << >> /\ ac_sol = << >>
    /\ y_bus = << >>
    /\ IdleMap /\ IdleParse /\ IdleDc /\ IdleSrv

SpecNRNet == InitNRNet /\ [][NextNR]_vars

\* C13: when a generator, a load, an in-service branch or an in-service fixed
\* shunt names a bus id that is not in the bus list, the call comes back with
\* an empty AcSolution that carries a log entry; it does not abort.
C13_UnknownRefSurfaced ==
    (UnwrapOfNone(net) /\ nr_pc # "called") =>
        /\ nr_pc = "done"
        /\ ac_sol # << >>
        /\ IsEmptySolution(ac_sol[1])
        /\ ac_sol[1].log # << >>

OosIds(n) == {n.buses[p].bus_id : p \in {q \in DOMAIN n.buses : n.buses[q].bus_type = "OOS"}}

WithoutBranchesAt(n, ids) ==
    LET Clear(branch) == branch.from_bus \notin ids /\ branch.to_bus \notin ids
    IN  [n EXCEPT !.branches = SelectSeq(@, Clear)]

\* C14: a bus of type OOS has no index in bus_map, so no row or column of B';
\* a branch incident to an OOS bus adds nothing to B'; and no entry of the NR
\* mismatch vector or of the Jacobian index maps belongs to an OOS bus.
C14_OosContributesNothing ==
    LET oos == OosIds(net)
        size == Cardinality(DOMAIN net.bus_map)
    IN  /\ oos \cap DOMAIN net.bus_map = {}
        /\ BPrime(net, size) = BPrime(WithoutBranchesAt(net, oos), size)
        /\ nr_pc = "iterating" =>
             LET slack == SlackBusId(net.buses)[1]
                 order == MismatchOrder(net.buses, slack)
                 maps == IndexMaps(net.buses, slack)
             IN  /\ \A k \in DOMAIN order : order[k][2] \notin oos
                 /\ oos \cap DOMAIN maps.non_slack_bus_to_idx = {}
                 /\ oos \cap DOMAIN maps.pq_bus_to_idx = {}

\* what one in-service branch adds at (r, c) when its shunt conductances are
\* counted with its shunt susceptances
WithShuntConductance(branch, from_idx, to_idx, r, c) ==
    LET y == y_series(branch)
        y_from == Complex(branch.from_shunt_conductance, branch.from_shunt_susceptance)
        y_to == Complex(branch.to_shunt_conductance, branch.to_shunt_susceptance)
    IN  CSum(<<IF r = from_idx /\ c = from_idx THEN CAdd(y, y_from) ELSE CZero,
               IF r = to_idx /\ c = to_idx THEN CAdd(y, y_to) ELSE CZero,
               IF r = from_idx /\ c = to_idx THEN CNeg(y) ELSE CZero,
               IF r = to_idx /\ c = from_idx THEN CNeg(y) ELSE CZero>>)

\* the Y-bus without any branch: the fixed shunts alone
ShuntsOnly(n) == [n EXCEPT !.branches = << >>]

\* C15: every in-service branch from i to j adds y_series + g_from + j*b_from
\* to Y[i,i], y_series + g_to + j*b_to to Y[j,j] and -y_series to Y[i,j] and
\* to Y[j,i].
C15_ShuntConductanceOnDiagonal ==
    y_bus # << >> =>
        LET idx == BusIdxMap(net.buses)
            rest == build_ybus_matrix(ShuntsOnly(net), idx)
        IN  \A rc \in DOMAIN y_bus[1] :
              y_bus[1][rc] =
                CAdd(rest[rc],
                     CSum([k \in DOMAIN net.branches |->
                             IF ~net.branches[k].branch_status THEN CZero
                             ELSE WithShuntConductance(net.branches[k],
                                     idx[net.branches[k].from_bus],
                                     idx[net.branches[k].to_bus], rc[1], rc[2])]))

Transposed(rc) == <<rc[2], rc[1]>>

\* C16: B' is symmetric and the Y-bus is symmetric, also when several branches
\* join the same pair of buses and when branches carry a tap ratio or a phase
\* shift.
C16_Symmetric ==
    /\ y_bus # << >> =>
         \A rc \in DOMAIN y_bus[1] : y_bus[1][rc] = y_bus[1][Transposed(rc)]
    /\ LET size == Cardinality(DOMAIN net.bus_map)
           b_prime == BPrime(net, size)
       IN  \A ij \in DOMAIN b_prime : b_prime[ij] = b_prime[Transposed(ij)]

\* two parallel in-service branches between two non-slack buses, one with an
\* off-nominal tap and a phase shift, and non-zero off-diagonal entries
C16_Witness ==
    /\ y_bus # << >>
    /\ \E a, b \in DOMAIN net.branches :
         /\ a # b
         /\ net.branches[a].branch_status /\ net.branches[b].branch_status
         /\ net.branches[a].from_bus = net.branches[b].to_bus
         /\ net.branches[a].to_bus = net.branches[b].from_bus
         /\ net.branches[b].tap_ratio # ROne /\ net.branches[b].phase_shift # RZero
         /\ LET i == BusIdxMap(net.buses)[net.branches[a].from_bus]
                j == BusIdxMap(net.buses)[net.branches[a].to_bus]
            IN  /\ i # j
                /\ y_bus[1][<<i, j>>] # CZero
                /\ net.branches[a].from_bus \in DOMAIN net.bus_map
                /\ net.branches[a].to_bus \in DOMAIN net.bus_map
                /\ BPrime(net, Cardinality(DOMAIN net.bus_map))[
                       <<net.bus_map[net.branches[a].from_bus],
                         net.bus_map[net.branches[a].to_bus]>>] # RZero

InServiceWithReactance(branch) == branch.branch_status /\ branch.reactance.num # 0

\* C17: a branch with X = 0 or status OFF adds nothing to B' and has no entry
\* in branch_flows, and every in-service branch with X # 0 has one: the keys
\* of branch_flows are exactly the ids of the in-service branches with X # 0.
C17_SkippedBranchesLeaveNoTrace ==
    dc_pc = "done" =>
        LET size == Cardinality(DOMAIN net.bus_map)
            kept == [net EXCEPT !.branches = SelectSeq(@, InServiceWithReactance)]
        IN  /\ BPrime(net, size) = BPrime(kept, size)
            /\ dc_sol # << >> =>
                 DOMAIN dc_sol[1].branch_flows =
                   {net.branches[k].id :
                      k \in {q \in DOMAIN net.branches :
                               InServiceWithReactance(net.branches[q])}}

\* a solution for a network with a branch that is OFF, an in-service branch
\* with X = 0 and an in-service branch with X # 0
C17_Witness ==
    /\ dc_pc = "done" /\ dc_sol # << >>
    /\ \E k \in DOMAIN net.branches : ~net.branches[k].branch_status
    /\ \E k \in DOMAIN net.branches :
         net.branches[k].branch_status /\ net.branches[k].reactance.num = 0
    /\ \E k \in DOMAIN net.branches : InServiceWithReactance(net.branches[k])
    /\ dc_sol[1].branch_flows # EmptyMap

HasImpedance(branch) == branch.resistance.num # 0 \/ branch.reactance.num # 0

\* C18: a branch with R = 0 and X = 0 changes no entry of the Y-bus, whatever
\* its shunt susceptances are, and no entry of B'.
C18_ZeroImpedanceExcluded ==
    y_bus # << >> =>
        LET size == Cardinality(DOMAIN net.bus_map)
            without == [net EXCEPT !.branches = SelectSeq(@, HasImpedance)]
        IN  /\ y_bus[1] = build_ybus_matrix(without, BusIdxMap(net.buses))
            /\ BPrime(net, size) = BPrime(without, size)

-----------------------------------------------------------------------------
(* dc_approximation on a network whose bus list was changed by its owner
   (buses and branches are public fields) without rebuild_bus_map *)

MaxStaleBranches == 1

\* network.buses.push(bus); bus_map is left as it is
PushBus ==
    /\ dc_pc = "ready"
    /\ Len(net.buses) < MaxDcBuses
    /\ \E type \in DcBusTypes :
         net' = [net EXCEPT !.buses = Append(@, Bus(Len(@) + 1, type, One, 0))]
    /\ UNCHANGED <<mapVars, parseVars, dcVars, nrVars, srvVars>>

\* network.branches.push(branch)
PushBranch ==
    /\ dc_pc = "ready"
    /\ Len(net.branches) < MaxStaleBranches
    /\ \E from, to \in BusIds(net) :
         /\ from # to
         /\ net' = [net EXCEPT !.branches =
                      Append(@, Branch(Len(@) + 1, from, to, TRUE, Rat(1, 10)))]
    /\ UNCHANGED <<mapVars, parseVars, dcVars, nrVars, srvVars>>

\* Network::new(), or a parsed network of at most MaxDcBuses - 1 buses
InitStale ==
    /\ \/ net = NewNetwork
       \/ \E k \in 1..(MaxDcBuses - 1) :
            \E types \in [1..k -> DcBusTypes] :
              \E opt \in [1..k -> BranchOptions] :
                \E at \in [1..k -> BOOLEAN] :
                  net = DcNetwork(types, opt, at, << >>)
    /\ dc_pc = "ready" /\ dc_sol = << >> /\ earlier = << >>
    /\ IdleMap /\ IdleParse /\ IdleNr /\ IdleSrv

NextStale == PushBus \/ PushBranch \/ SolveDC

SpecStale == InitStale /\ [][NextStale]_vars

\* C19: dc_approximation derives the non-slack index map from the bus list at
\* the time of the call, so it returns for any network what it returns for
\* the same network after rebuild_bus_map.
C19_SameAsAfterRebuild ==
    dc_pc = "done" => dc_sol = dc_approximation(rebuild_bus_map(net))

\* C20: a DcSolution returned by dc_approximation has a bus_angles entry for
\* every bus of the network and for nothing else, and the entry of every
\* SLACK bus is 0 degrees.
C20_OneAnglePerBus ==
    (dc_pc = "done" /\ dc_sol # << >>) =>
        /\ DOMAIN dc_sol[1].bus_angles = BusIds(net)
        /\ \A p \in DOMAIN net.buses :
             net.buses[p].bus_type = "Slack" =>
                 dc_sol[1].bus_angles[net.buses[p].bus_id] = RZero

\* a solution for a network with a SLACK bus, an OOS bus and a bus whose angle
\* is not zero
C20_Witness ==
    /\ dc_pc = "done" /\ dc_sol # << >>
    /\ \E p \in DOMAIN net.buses : net.buses[p].bus_type = "Slack"
    /\ \E p \in DOMAIN net.buses : net.buses[p].bus_type = "OOS"
    /\ \E id \in DOMAIN dc_sol[1].bus_angles : dc_sol[1].bus_angles[id] # RZero

\* B' of the network has no inverse
SingularBPrime(n) ==
    LET size == Cardinality(DOMAIN n.bus_map)
    IN  Det(BPrime(n, size), Indices(size), Indices(size)).num = 0

\* C21: dc_approximation returns no solution when there is no non-slack bus
\* and when the solve of B' fails (B' singular), so a solution is returned only
\* for a B' that has an inverse; whatever it returns is either no solution or
\* a whole DcSolution, and the call always comes back.
C21_FailureIsAValue ==
    dc_pc = "done" =>
        /\ DOMAIN net.bus_map = {} => dc_sol = << >>
        /\ (DOMAIN net.bus_map # {} /\ dc_sol # << >>) => ~SingularBPrime(net)
        /\ dc_sol # << >> =>
             /\ DOMAIN dc_sol[1] = {"bus_angles", "branch_flows"}
             /\ DOMAIN net.bus_map \subseteq DOMAIN dc_sol[1].bus_angles

\* a call on a network with non-slack buses and a singular B' has come back
\* without a solution
C21_Witness ==
    /\ dc_pc = "done"
    /\ DOMAIN net.bus_map # {}
    /\ \E k \in DOMAIN net.branches : ~Skipped(net.branches[k])
    /\ SingularBPrime(net)
    /\ dc_sol = << >>

-----------------------------------------------------------------------------
(* Concurrent requests: every handler takes the Mutex first
   (state.lock().await) and keeps the guard until it returns *)

MaxTasks == 3

TaskKinds == {"solve_dc", "solve_nr", "add_bus", "update_bus", "delete_bus",
              "new_network"}
SolveKinds == {"solve_dc", "solve_nr"}

\* a request that has not reached state.lock().await yet
Task(kind) ==
    [kind |-> kind, pc |-> "waiting", seen |-> << >>, ids_before |-> {},
     new_id |-> 0, answer |-> 0]

\* a guard that is dropped as soon as the solver has been started
GuardDroppedEarly(t) == 0

\* The holder of the Mutex while the solver runs: `guard` lives until the
\* handler returns.
GuardDuringSolve(t) == t

\* drop(guard) at the end of the handler
Released(t) == IF lock = t THEN 0 ELSE lock

Finish(t, status, fields) ==
    /\ tasks' = [tasks EXCEPT ![t] = [fields EXCEPT !.pc = "done", !.answer = status]]
    /\ Respond(tasks[t].kind, status)
    /\ lock' = Released(t)

\* let mut guard = state.lock().await
Acquire ==
    /\ \E t \in DOMAIN tasks :
         /\ tasks[t].pc = "waiting"
         /\ lock = 0
         /\ lock' = t
         /\ tasks' = [tasks EXCEPT ![t].pc = "locked"]
    /\ UNCHANGED <<state, req, resp>>
    /\ UNCHANGED <<net, mapVars, parseVars, dcVars, nrVars>>

\* solve_dc / solve_nr up to the call of the solver
SolveBegin ==
    /\ \E t \in DOMAIN tasks :
         /\ tasks[t].kind \in SolveKinds /\ tasks[t].pc = "locked" /\ lock = t
         /\ IF state = << >>
            THEN Finish(t, 404, tasks[t])
            ELSE /\ tasks' = [tasks EXCEPT ![t].pc = "solving", ![t].seen = state]
                 /\ lock' = GuardDuringSolve(t)
                 /\ UNCHANGED <<req, resp>>
    /\ UNCHANGED state
    /\ UNCHANGED <<net, mapVars, parseVars, dcVars, nrVars>>

\* the solver returns and the handler answers
SolveEnd ==
    /\ \E t \in DOMAIN tasks :
         /\ tasks[t].pc = "solving"
         /\ IF tasks[t].kind = "solve_dc" /\ dc_approximation(state[1]) = << >>
            THEN Finish(t, 422, tasks[t])
            ELSE Finish(t, 200, tasks[t])
    /\ UNCHANGED state
    /\ UNCHANGED <<net, mapVars, parseVars, dcVars, nrVars>>

\* add_bus from the guard to the response
AddBusLocked ==
    /\ \E t \in DOMAIN tasks :
         /\ tasks[t].kind = "add_bus" /\ tasks[t].pc = "locked" /\ lock = t
         /\ IF state = << >>
            THEN Finish(t, 404, tasks[t]) /\ UNCHANGED state
            ELSE \/ \E id \in 1..MaxBusId, type \in SrvBusTypes :
                      /\ Len(state[1].buses) < MaxSrvBuses
                      /\ NewBusId(state[1].buses) <= MaxBusId
                      /\ state' = <<AddBusTo(state[1], Bus(id, type, One, 0))>>
                      /\ Finish(t, 200,
                           [tasks[t] EXCEPT
                              !.ids_before = BusIds(state[1]),
                              !.new_id = state'[1].buses[Len(state'[1].buses)].bus_id])
                 \/ \* the body is no Bus
                    Finish(t, 400, tasks[t]) /\ UNCHANGED state
    /\ UNCHANGED <<net, mapVars, parseVars, dcVars, nrVars>>

\* update_bus from the guard to the response
UpdateBusLocked ==
    /\ \E t \in DOMAIN tasks, id \in 1..MaxBusId :
         /\ tasks[t].kind = "update_bus" /\ tasks[t].pc = "locked" /\ lock = t
         /\ IF state = << >> \/ Find(IF state = << >> THEN << >> ELSE state[1].buses, id) = 0
            THEN Finish(t, 404, tasks[t]) /\ UNCHANGED state
            ELSE \E body_id \in 1..MaxBusId, type \in SrvBusTypes :
                   /\ state' = <<UpdateBusIn(state[1], id, Bus(body_id, type, One, 0))>>
                   /\ Finish(t, 200, tasks[t])
    /\ UNCHANGED <<net, mapVars, parseVars, dcVars, nrVars>>

\* delete_bus from the guard to the response
DeleteBusLocked ==
    /\ \E t \in DOMAIN tasks, id \in 1..MaxBusId :
         /\ tasks[t].kind = "delete_bus" /\ tasks[t].pc = "locked" /\ lock = t
         /\ IF state = << >> \/ Find(IF state = << >> THEN << >> ELSE state[1].buses, id) = 0
            THEN Finish(t, 404, tasks[t]) /\ UNCHANGED state
            ELSE /\ state' = <<DeleteBusFrom(state[1], id)>>
                 /\ Finish(t, 200, tasks[t])
    /\ UNCHANGED <<net, mapVars, parseVars, dcVars, nrVars>>

\* new_network: *state.lock().await = Some(net)
NewNetworkLocked ==
    /\ \E t \in DOMAIN tasks :
         /\ tasks[t].kind = "new_network" /\ tasks[t].pc = "locked" /\ lock = t
         /\ state' = <<NewNetwork>>
         /\ Finish(t, 200, tasks[t])
    /\ UNCHANGED <<net, mapVars, parseVars, dcVars, nrVars>>

\* the networks the requests meet: none, Network::new(), or a small case
LoadedChoices ==
    {<< >>, <<NewNetwork>>,
     <<rebuild_bus_map([NewNetwork EXCEPT !.buses = <<Bus(1, "Slack", One, 0)>>])>>,
     <<rebuild_bus_map([NewNetwork EXCEPT
          !.buses = <<Bus(1, "Slack", One, 0), Bus(2, "PQ", One, 0)>>,
          !.branches = <<Branch(0, 1, 2, TRUE, Rat(1, 10))>>,
          !.loads = <<Load(1, 2, 50, 10)>>])>>}

InitConc ==
    /\ state \in LoadedChoices
    /\ \E kinds \in [1..MaxTasks -> TaskKinds] :
         tasks = [t \in 1..MaxTasks |-> Task(kinds[t])]
    /\ lock = 0
    /\ req = "none" /\ resp = 0
    /\ net = NewNetwork
    /\ IdleMap /\ IdleParse /\ IdleDc /\ IdleNr

NextConc ==
    \/ Acquire \/ SolveBegin \/ SolveEnd
    \/ AddBusLocked \/ UpdateBusLocked \/ DeleteBusLocked \/ NewNetworkLocked

SpecConc == InitConc /\ [][NextConc]_vars

\* C22: from the moment the solver starts reading the network until it has
\* returned, the handler holds the lock and the stored network is the one the
\* solver started on, whatever the other requests do.
C22_LockHeldAcrossSolve ==
    \A t \in DOMAIN tasks :
        tasks[t].pc = "solving" => lock = t /\ state = tasks[t].seen

\* a solve is running while an edit request and another solve wait for the lock
C22_Witness ==
    \E t, u, w \in DOMAIN tasks :
        /\ tasks[t].pc = "solving"
        /\ tasks[u].kind \in {"add_bus", "update_bus", "delete_bus", "new_network"}
        /\ tasks[u].pc = "waiting"
        /\ tasks[w].kind \in SolveKinds /\ w # t /\ tasks[w].pc = "waiting"

-----------------------------------------------------------------------------
(* The iteration with the corrections solved from the network: power
   calculation, mismatch vector, Jacobian and its inverse, in fixed point *)

\* Voltages, angles and corrections are counted in units of 1/One. Powers,
\* admittances and Jacobian entries reach a hundred times as far and are
\* counted in units of 1/PowerOne, determinants in units of 1/DetOne.
PowerOne == One \div 100
DetOne == One \div 10000

\* an admittance, a rational number, in units of 1/PowerOne
RatToFp(r) == MulDiv(r.num, PowerOne, r.den)
\* a * b and a / b where b is a voltage or the cosine or sine of an angle
fp_mul(a, b) == MulDiv(a, b, One)
fp_div(a, b) == MulDiv(a, One, b)

\* f64::cos and f64::sin by their expansions at 0 up to the terms in a^6 and
\* a^7, which is within the resolution for angle differences below 0.2 rad
CosSeries(a2, a4) == One - (a2 \div 2) + (a4 \div 24) - (fp_mul(a4, a2) \div 720)
CosSquare(a2) == CosSeries(a2, fp_mul(a2, a2))
cos_fp(a) == CosSquare(fp_mul(a, a))

SinSeries(a, a2, a3, a5) ==
    a - MulDiv(a3, 1, 6) + MulDiv(a5, 1, 120) - MulDiv(fp_mul(a5, a2), 1, 5040)
SinCube(a, a2, a3) == SinSeries(a, a2, a3, fp_mul(a3, a2))
SinSquare(a, a2) == SinCube(a, a2, fp_mul(a2, a))
sin_fp(a) == SinSquare(a, fp_mul(a, a))

RECURSIVE FpSum(_)
FpSum(s) == IF s = << >> THEN 0 ELSE Head(s) + FpSum(Tail(s))

\* p_scheduled and q_scheduled of a bus, per unit
PScheduled(n, id) ==
    FpSum([k \in DOMAIN n.generators |->
             IF n.generators[k].gen_status /\ n.generators[k].gen_bus_id = id
             THEN MulDiv(n.generators[k].p_gen, PowerOne, n.s_base) ELSE 0])
    - FpSum([k \in DOMAIN n.loads |->
               IF n.loads[k].bus_id = id
               THEN MulDiv(n.loads[k].real_load, PowerOne, n.s_base) ELSE 0])

QScheduled(n, id) ==
    FpSum([k \in DOMAIN n.generators |->
             IF n.generators[k].gen_status /\ n.generators[k].gen_bus_id = id
             THEN MulDiv(n.generators[k].q_gen, PowerOne, n.s_base) ELSE 0])
    - FpSum([k \in DOMAIN n.loads |->
               IF n.loads[k].bus_id = id
               THEN MulDiv(n.loads[k].imag_load, PowerOne, n.s_base) ELSE 0])

\* g_ik * cos(angle_diff) + b_ik * sin(angle_diff)
GcosBsin(g_ik, b_ik, angle_diff) ==
    fp_mul(g_ik, cos_fp(angle_diff)) + fp_mul(b_ik, sin_fp(angle_diff))

\* g_ik * sin(angle_diff) - b_ik * cos(angle_diff)
GsinBcos(g_ik, b_ik, angle_diff) ==
    fp_mul(g_ik, sin_fp(angle_diff)) - fp_mul(b_ik, cos_fp(angle_diff))

\* the term of bus k in sum_p (part "p") or sum_q (part "q") of bus i
PowerTerm(part, v_k, g_ik, b_ik, angle_diff) ==
    IF part = "p"
    THEN fp_mul(v_k, GcosBsin(g_ik, b_ik, angle_diff))
    ELSE fp_mul(v_k, GsinBcos(g_ik, b_ik, angle_diff))

\* v_i * sum_p or v_i * sum_q of the bus at position i of the bus list
PowerAt(part, buses, ybus, vv, dd, i) ==
    fp_mul(vv[buses[i].bus_id],
           FpSum([k \in DOMAIN buses |->
                    PowerTerm(part, vv[buses[k].bus_id],
                              RatToFp(ybus[<<i - 1, k - 1>>].re),
                              RatToFp(ybus[<<i - 1, k - 1>>].im),
                              dd[buses[i].bus_id] - dd[buses[k].bus_id])]))

\* p_calc and q_calc, by bus index
PowerCalc(buses, ybus, vv, dd) ==
    [part \in {"p", "q"} |->
        [i \in 0..(Len(buses) - 1) |-> PowerAt(part, buses, ybus, vv, dd, i + 1)]]

\* delta_p_q
MismatchVector(n, slack, calc) ==
    LET order == MismatchOrder(n.buses, slack)
        idx == BusIdxMap(n.buses)
    IN  [k \in DOMAIN order |->
           IF order[k][1] = "dP"
           THEN PScheduled(n, order[k][2]) - calc.p[idx[order[k][2]]]
           ELSE QScheduled(n, order[k][2]) - calc.q[idx[order[k][2]]]]

\* One entry of a block of the Jacobian ("j11", "j12", "j21" or "j22"), on the
\* diagonal of the block or off it, from the values the loops compute
JacobianValue(block, diagonal, v_i, v_k, g_ik, b_ik, p_i_calc, q_i_calc, gs_bc, gc_bs) ==
    CASE block = "j11" ->
           IF diagonal THEN -q_i_calc - fp_mul(fp_mul(v_i, v_k), b_ik)
           ELSE -fp_mul(fp_mul(v_i, v_k), gs_bc)
      [] block = "j12" ->
           IF diagonal THEN fp_div(p_i_calc, v_i) + fp_mul(v_i, g_ik)
           ELSE fp_mul(v_i, gc_bs)
      [] block = "j21" ->
           IF diagonal THEN p_i_calc - fp_mul(fp_mul(v_i, v_k), g_ik)
           ELSE fp_mul(fp_mul(v_i, v_k), gc_bs)
      [] block = "j22" ->
           IF diagonal THEN fp_div(q_i_calc, v_i) - fp_mul(v_i, b_ik)
           ELSE fp_mul(v_i, gs_bc)

JacobianTerms(block, diagonal, v_i, v_k, g_ik, b_ik, p_i_calc, q_i_calc, angle_diff) ==
    JacobianValue(block, diagonal, v_i, v_k, g_ik, b_ik, p_i_calc, q_i_calc,
                  GsinBcos(g_ik, b_ik, angle_diff), GcosBsin(g_ik, b_ik, angle_diff))

\* One entry of the Jacobian: block "j11", "j12", "j21" or "j22", for the
\* buses at positions pi and pk of the bus list.
JacobianEntry(block, buses, ybus, vv, dd, calc, pi, pk) ==
    JacobianTerms(block, pi = pk, vv[buses[pi].bus_id], vv[buses[pk].bus_id],
                  RatToFp(ybus[<<pi - 1, pk - 1>>].re),
                  RatToFp(ybus[<<pi - 1, pk - 1>>].im),
                  calc.p[pi - 1], calc.q[pi - 1],
                  dd[buses[pi].bus_id] - dd[buses[pk].bus_id])

\* position in the bus list of the bus with a given index in an index map
BusAt(buses, map, i) == CHOOSE p \in DOMAIN buses :
                           buses[p].bus_id \in DOMAIN map /\ map[buses[p].bus_id] = i

\* the block of row r and column c, and the positions in the bus list of the
\* buses of the row and of the column
JacobianBlock(r, c, num_non_slack) ==
    IF r < num_non_slack
    THEN (IF c < num_non_slack THEN "j11" ELSE "j12")
    ELSE (IF c < num_non_slack THEN "j21" ELSE "j22")

RowBus(buses, maps, r) ==
    IF r < maps.current_non_slack_idx
    THEN BusAt(buses, maps.non_slack_bus_to_idx, r)
    ELSE BusAt(buses, maps.pq_bus_to_idx, r - maps.current_non_slack_idx)

JacobianOf(buses, maps, ybus, vv, dd, calc) ==
    [rc \in (1..(maps.current_non_slack_idx + maps.current_pq_idx))
              \X (1..(maps.current_non_slack_idx + maps.current_pq_idx)) |->
        JacobianEntry(JacobianBlock(rc[1] - 1, rc[2] - 1, maps.current_non_slack_idx),
                      buses, ybus, vv, dd, calc,
                      RowBus(buses, maps, rc[1] - 1), RowBus(buses, maps, rc[2] - 1))]

\* jacobian, rows and columns numbered from 1
Jacobian(buses, slack, ybus, vv, dd, calc) ==
    JacobianOf(buses, IndexMaps(buses, slack), ybus, vv, dd, calc)

\* jacobian.try_inverse() * delta_p_q for one or two unknowns: << >> when the
\* determinant is zero, else <<x>>. The entries of the inverse and of x are in
\* units of 1/One.
SolveCorrections(jac, size, d) ==
    IF size = 1
    THEN IF jac[<<1, 1>>] = 0 THEN << >>
         ELSE <<[k \in 1..1 |-> MulDiv(d[1], One, jac[<<1, 1>>])]>>
    ELSE LET m11 == jac[<<1, 1>>]
             m12 == jac[<<1, 2>>]
             m21 == jac[<<2, 1>>]
             m22 == jac[<<2, 2>>]
             determinant == MulDiv(m11, m22, PowerOne * (PowerOne \div DetOne))
                            - MulDiv(m21, m12, PowerOne * (PowerOne \div DetOne))
             Inv(m) == MulDiv(m, DetOne * (One \div PowerOne), determinant)
         IN  IF determinant = 0 THEN << >>
             ELSE <<[k \in 1..2 |->
                      IF k = 1
                      THEN MulDiv(Inv(m22), d[1], PowerOne)
                           + MulDiv(Inv(-m12), d[2], PowerOne)
                      ELSE MulDiv(Inv(-m21), d[1], PowerOne)
                           + MulDiv(Inv(m11), d[2], PowerOne)]>>

\* the rest of a pass once the corrections x are applied, st the state after
NRCorrected(buses, x, st, log2) ==
    /\ delta_x' = x
    /\ v_prev' = v /\ delta_prev' = delta
    /\ v' = st.v /\ delta' = st.delta
    /\ IF Converged(st.max_mismatch)
       THEN /\ Return(Solution(buses, st.v, st.delta,
                   Append(log2, Msg(MsgConverged, <<iter + 1>>))))
            /\ UNCHANGED iter
       ELSE /\ log_messages' = log2
            /\ iter' = iter + 1
            /\ UNCHANGED <<nr_pc, ac_sol>>

\* the rest of a pass once try_inverse has answered
NRInverted(buses, slack, solved, log1) ==
    IF solved = << >>
    THEN /\ Return(EmptySolution(Append(log1, Msg(MsgSingular, << >>))))
         /\ UNCHANGED <<iter, v, delta, v_prev, delta_prev, delta_x>>
    ELSE NRCorrected(buses, solved[1],
                     UpdateWalk(buses, slack, solved[1], 1, 0,
                                [v |-> v, delta |-> delta, max_mismatch |-> 0]),
                     log1 \o <<Msg(MsgCorrections, <<iter + 1>>),
                               Msg(MsgMaxMismatch, <<iter + 1>>)>>)

\* the rest of a pass once p_calc and q_calc are computed
NRCalculated(buses, slack, maps, calc) ==
    NRInverted(buses, slack,
               SolveCorrections(JacobianOf(buses, maps, y_bus[1], v, delta, calc),
                                maps.current_non_slack_idx + maps.current_pq_idx,
                                MismatchVector(net, slack, calc)),
               log_messages \o <<Msg(MsgIteration, <<iter + 1>>),
                                 Msg(MsgJacobian, <<iter + 1>>)>>)

\* one pass of the iteration loop, the corrections solved from the mismatch
NRSolvePass ==
    /\ nr_pc = "iterating"
    /\ LoopContinues(iter)
    /\ NRCalculated(net.buses, SlackBusId(net.buses)[1],
                    IndexMaps(net.buses, SlackBusId(net.buses)[1]),
                    PowerCalc(net.buses, y_bus[1], v, delta))
    /\ UNCHANGED <<net, mapVars, parseVars, dcVars, srvVars, y_bus>>

\* a line from bus 1 to bus 2 without shunts
TwoBusLine(r, x) ==
    AcBranch(1, 1, 2, TRUE, r, x, RZero, RZero, RZero, RZero, ROne, RZero)

\* Two buses, the slack bus and a load bus (or a PV bus), joined by a line:
\* resistive lines of 0.01 and 0.02 per unit under heavy load, and the line of
\* 0.01 + j0.1 per unit with a load of 50 MW and 10 MVAr. The stored voltage of
\* bus 2 is 1.0, 0.95 or 0.9 per unit.
TwoBusChoices ==
    {[type |-> "PQ", r |-> Rat(1, 100), x |-> RZero, load |-> l, imag |-> 0,
      voltage |-> u] :
        l \in {0, 1600, 2100, 2400}, u \in {One, One - One \div 20, One - One \div 10}}
    \cup {[type |-> "PQ", r |-> Rat(1, 50), x |-> RZero, load |-> 900, imag |-> 0,
           voltage |-> u] : u \in {One, One - One \div 10}}
    \cup {[type |-> "PQ", r |-> Rat(1, 100), x |-> Rat(1, 10), load |-> 50, imag |-> 10,
           voltage |-> u] : u \in {One, One - One \div 10}}
    \cup {[type |-> "PV", r |-> Rat(1, 100), x |-> RZero, load |-> 0, imag |-> 0,
           voltage |-> One]}

TwoBusNetwork(c) ==
    rebuild_bus_map(
        [NewNetwork EXCEPT
           !.buses = <<Bus(1, "Slack", One, 0), Bus(2, c.type, c.voltage, 0)>>,
           !.branches = <<TwoBusLine(c.r, c.x)>>,
           !.loads = IF c.load = 0 THEN << >> ELSE <<Load(1, 2, c.load, c.imag)>>])

InitNRSolve ==
    /\ \E c \in TwoBusChoices : net = TwoBusNetwork(c)
    /\ nr_pc = "called" /\ iter = 0 /\ v = EmptyMap /\ delta = EmptyMap
    /\ v_prev = EmptyMap /\ delta_prev = EmptyMap
    /\ delta_x = << >> /\ log_messages = << >> /\ ac_sol = << >>
    /\ y_bus = << >>
    /\ IdleMap /\ IdleParse /\ IdleDc /\ IdleSrv

NextNRSolve == NRStart \/ NRSolvePass

SpecNRSolve == InitNRSolve /\ [][NextNRSolve]_vars

\* the mismatch vector of the returned voltages and angles
ReturnedMismatch ==
    LET slack == SlackBusId(net.buses)[1]
    IN  MismatchVector(net, slack, PowerCalc(net.buses, y_bus[1], v, delta))

\* C23: for every converged result the power mismatch of the returned state is
\* at most 1e-6 at every non-slack bus (P) and every PQ bus (Q).
C23_ConvergedMismatchSmall ==
    (nr_pc = "done" /\ LastMsg(log_messages) = MsgConverged) =>
        \A k \in DOMAIN ReturnedMismatch :
            Abs(ReturnedMismatch[k]) * (One \div PowerOne) <= tolerance

-----------------------------------------------------------------------------
(* The solvers called again on the network they were called on: both take  *)
(* &self, so a caller that holds a Network can call them any number of     *)
(* times.                                                                  *)

\* a solver that stores the voltages it returns in the buses of the network
AfterSolveStored(n, sol) ==
    IF sol = << >> \/ sol[1].bus_voltages = EmptyMap THEN n
    ELSE [n EXCEPT !.buses =
            [p \in DOMAIN n.buses |->
               [n.buses[p] EXCEPT !.voltage = sol[1].bus_voltages[n.buses[p].bus_id]]]]

\* the Network after newton_raphson_solution(&self) has returned sol
AfterSolve(n, sol) == n

Called(solver) == \E k \in DOMAIN earlier : earlier[k].solver = solver

\* the caller keeps the Option<DcSolution> and calls dc_approximation again
CallAgainDC ==
    /\ dc_pc = "done"
    /\ ~Called("dc_approximation")
    /\ earlier' = Append(earlier, [solver |-> "dc_approximation", result |-> dc_sol])
    /\ dc_pc' = "ready"
    /\ dc_sol' = << >>
    /\ UNCHANGED <<net, mapVars, parseVars, nrVars, srvVars>>

\* the caller keeps the AcSolution and calls newton_raphson_solution again
CallAgainNR ==
    /\ nr_pc = "done"
    /\ ~Called("newton_raphson_solution")
    /\ earlier' = Append(earlier,
                         [solver |-> "newton_raphson_solution", result |-> ac_sol])
    /\ net' = AfterSolve(net, ac_sol)
    /\ nr_pc' = "called" /\ iter' = 0 /\ v' = EmptyMap /\ delta' = EmptyMap
    /\ v_prev' = EmptyMap /\ delta_prev' = EmptyMap
    /\ delta_x' = << >> /\ log_messages' = << >> /\ ac_sol' = << >>
    /\ y_bus' = << >>
    /\ UNCHANGED <<mapVars, parseVars, dc_pc, dc_sol, srvVars>>

InitAgain ==
    /\ \E c \in TwoBusChoices : net = TwoBusNetwork(c)
    /\ dc_pc = "ready" /\ dc_sol = << >> /\ earlier = << >>
    /\ nr_pc = "called" /\ iter = 0 /\ v = EmptyMap /\ delta = EmptyMap
    /\ v_prev = EmptyMap /\ delta_prev = EmptyMap
    /\ delta_x = << >> /\ log_messages = << >> /\ ac_sol = << >>
    /\ y_bus = << >>
    /\ IdleMap /\ IdleParse /\ IdleSrv

NextAgain == SolveDC \/ CallAgainDC \/ NRStart \/ NRSolvePass \/ CallAgainNR

SpecAgain == InitAgain /\ [][NextAgain]_vars

\* a call that has returned returned what the earlier call of the same solver did
SameAsEarlier ==
    \A k \in DOMAIN earlier :
        /\ (earlier[k].solver = "dc_approximation" /\ dc_pc = "done")
              => dc_sol = earlier[k].result
        /\ (earlier[k].solver = "newton_raphson_solution" /\ nr_pc = "done")
              => ac_sol = earlier[k].result

-----------------------------------------------------------------------------
(* The injection vector of dc_approximation *)

\* the number of unknowns, n = self.bus_map.len()
DcSize(n) == Cardinality(DOMAIN n.bus_map)

\* p_gen / s_base summed over the in-service generators at bus id
GeneratedAt(n, id) ==
    RSum([k \in DOMAIN n.generators |->
            IF n.generators[k].gen_status /\ n.generators[k].gen_bus_id = id
            THEN Rat(n.generators[k].p_gen, n.s_base) ELSE RZero])

\* real_load / s_base summed over the loads at bus id
LoadedAt(n, id) ==
    RSum([k \in DOMAIN n.loads |->
            IF n.loads[k].bus_id = id
            THEN Rat(n.loads[k].real_load, n.s_base) ELSE RZero])

SlackIds(n) == {n.buses[p].bus_id : p \in {q \in DOMAIN n.buses :
                                               n.buses[q].bus_type = "Slack"}}

InServiceGenerator(g) == g.gen_status

\* the network without its out-of-service generators
WithoutIdleGenerators(n) ==
    [n EXCEPT !.generators = SelectSeq(n.generators, InServiceGenerator)]

\* the network without the generators and loads at slack buses
WithoutSlackInjections(n) ==
    LET Elsewhere(g) == g.gen_bus_id \notin SlackIds(n)
        LoadElsewhere(l) == l.bus_id \notin SlackIds(n)
    IN  [n EXCEPT !.generators = SelectSeq(n.generators, Elsewhere),
                  !.loads = SelectSeq(n.loads, LoadElsewhere)]

\* C25: the entry of the injection vector of a bus that is not a slack bus is
\* the sum of p_gen / s_base over the in-service generators at the bus minus the
\* sum of real_load / s_base over the loads at the bus; the vector is the same
\* without the out-of-service generators, and the same without the generators
\* and loads at slack buses.
C25_InjectionPerBus ==
    /\ \A p \in DOMAIN net.buses :
          net.buses[p].bus_type # "Slack" =>
             Injection(net, DcSize(net))[net.bus_map[net.buses[p].bus_id]]
                = RSub(GeneratedAt(net, net.buses[p].bus_id),
                       LoadedAt(net, net.buses[p].bus_id))
    /\ Injection(WithoutIdleGenerators(net), DcSize(net)) = Injection(net, DcSize(net))
    /\ Injection(WithoutSlackInjections(net), DcSize(net)) = Injection(net, DcSize(net))

\* solved with Some(solution) where a bus that is not a slack bus has a load and
\* an out-of-service generator, and the slack bus has a load
C25_Witness ==
    /\ dc_pc = "done" /\ dc_sol # << >>
    /\ \E g \in DOMAIN net.generators :
          /\ ~net.generators[g].gen_status
          /\ net.generators[g].gen_bus_id \notin SlackIds(net)
          /\ \E l \in DOMAIN net.loads :
                net.loads[l].bus_id = net.generators[g].gen_bus_id
    /\ \E l \in DOMAIN net.loads : net.loads[l].bus_id \in SlackIds(net)
-----------------------------------------------------------------------------
(* The sizes of the mismatch vector, the Jacobian and the update walk *)

\* the indices of delta_x the update loop reads, in the order it reads them
RECURSIVE WalkReads(_, _, _, _)
WalkReads(buses, slack, p, current_delta_x_idx) ==
    IF p > Len(buses) THEN << >>
    ELSE IF buses[p].bus_id = slack
         THEN WalkReads(buses, slack, p + 1, current_delta_x_idx)
    ELSE IF buses[p].bus_type = "PQ"
         THEN <<current_delta_x_idx, current_delta_x_idx + 1>>
              \o WalkReads(buses, slack, p + 1, current_delta_x_idx + 2)
         ELSE <<current_delta_x_idx>>
              \o WalkReads(buses, slack, p + 1, current_delta_x_idx + 1)

\* the buses of a type other than Slack, and the PQ buses
NumNonSlack(buses) == Cardinality({p \in DOMAIN buses : buses[p].bus_type # "Slack"})
NumPq(buses) == Cardinality({p \in DOMAIN buses : buses[p].bus_type = "PQ"})

\* the rows and columns of the Jacobian, num_non_slack + num_pq
JacobianSize(buses, slack) ==
    IndexMaps(buses, slack).current_non_slack_idx + IndexMaps(buses, slack).current_pq_idx

\* the sizes in a pass over buses with the slack bus id slack
SizesAgree(buses, slack) ==
    /\ Len(MismatchOrder(buses, slack)) = NumNonSlack(buses) + NumPq(buses)
    /\ JacobianSize(buses, slack) = NumNonSlack(buses) + NumPq(buses)
    /\ WalkReads(buses, slack, 1, 0)
          = [k \in 1..(NumNonSlack(buses) + NumPq(buses)) |-> k - 1]

\* C26: in every pass of the iteration the mismatch vector has n_ns + n_pq
\* entries, the Jacobian n_ns + n_pq rows and columns, and the update reads
\* the entries 0, ..., n_ns + n_pq - 1 of the corrections, each once and none
\* past the end; the corrections of the pass before have that length.
C26_SizesAgree ==
    nr_pc = "iterating" =>
        /\ SizesAgree(net.buses, SlackBusId(net.buses)[1])
        /\ iter > 0 => Len(delta_x) = NumNonSlack(net.buses) + NumPq(net.buses)

\* a pass has run on a network with the slack bus in the middle, a PQ bus and a
\* PV or out-of-service bus
C26_Witness ==
    /\ nr_pc = "iterating" /\ iter > 0
    /\ Len(net.buses) = 3
    /\ net.buses[2].bus_type = "Slack"
    /\ NumPq(net.buses) = 1
    /\ Len(delta_x) = 3
-----------------------------------------------------------------------------
(* server.rs: deleting from a loaded network that has branches, generators, *)
(* loads and shunts                                                         *)

\* a SwitchedShunt at bus, controlling the voltage of the bus remote (SWREM)
SwitchedShunt(bus, remote) == [bus_id |-> bus, status |-> TRUE, remote_bus |-> remote]

\* net.branches.retain(|b| b.id != id)
DeleteBranchFrom(n, id) ==
    LET Keep(b) == b.id # id
    IN  [n EXCEPT !.branches = SelectSeq(@, Keep)]

\* net.fixed_shunts.remove(idx), for idx < net.fixed_shunts.len()
DeleteFixedShuntFrom(n, idx) ==
    [n EXCEPT !.fixed_shunts =
        [k \in 1..(Len(@) - 1) |-> IF k <= idx THEN @[k] ELSE @[k + 1]]]

\* DELETE /api/branches/:id
delete_branch ==
    /\ \E id \in 0..MaxBusId :
         IF state = << >>
         THEN Respond("delete_branch", 404) /\ UNCHANGED state
         ELSE /\ state' = <<DeleteBranchFrom(state[1], id)>>
              /\ IF Len(DeleteBranchFrom(state[1], id).branches) = Len(state[1].branches)
                 THEN Respond("delete_branch", 404)
                 ELSE Respond("delete_branch", 200)
    /\ SrvUnchanged

\* DELETE /api/fixed-shunts/:idx
delete_fixed_shunt ==
    /\ \E idx \in 0..MaxBusId :
         IF state = << >>
         THEN Respond("delete_fixed_shunt", 404) /\ UNCHANGED state
         ELSE IF idx >= Len(state[1].fixed_shunts)
         THEN Respond("delete_fixed_shunt", 404) /\ UNCHANGED state
         ELSE /\ state' = <<DeleteFixedShuntFrom(state[1], idx)>>
              /\ Respond("delete_fixed_shunt", 200)
    /\ SrvUnchanged

\* A case of k buses, bus 1 the slack bus: a branch from every bus to the next
\* (from the last to the first), and at every bus b with at[b] a generator, a
\* load, a fixed shunt and a switched shunt that controls the next bus.
CascadeNetwork(k, at) ==
    LET Attached(x) == at[x.bus_id]
        AttachedGen(g) == at[g.gen_bus_id]
    IN  rebuild_bus_map(
          [NewNetwork EXCEPT
             !.buses = [p \in 1..k |-> Bus(p, IF p = 1 THEN "Slack" ELSE "PQ", One, 0)],
             !.branches = [c \in 1..k |-> Branch(c - 1, c, (c % k) + 1, TRUE, Rat(1, 10))],
             !.generators = Renumber(SelectSeq([b \in 1..k |-> Generator(0, b, TRUE, 30, 0)],
                                               AttachedGen), "gen_id"),
             !.loads = LoadsAt(k, at),
             !.fixed_shunts = SelectSeq([b \in 1..k |-> FixedShunt(b, TRUE, 0, 5)],
                                        Attached),
             !.switched_shunts = SelectSeq([b \in 1..k |-> SwitchedShunt(b, (b % k) + 1)],
                                           Attached)])

InitCascade ==
    /\ \/ state = << >>
       \/ \E k \in 2..MaxSrvBuses : \E at \in [1..k -> BOOLEAN] :
            state = <<CascadeNetwork(k, at)>>
    /\ req = "none" /\ resp = 0
    /\ net = NewNetwork
    /\ IdleMap /\ IdleParse /\ IdleDc /\ IdleNr /\ IdleCon

NextCascade == delete_bus \/ delete_branch \/ delete_fixed_shunt

SpecCascade == InitCascade /\ [][NextCascade]_vars

\* nothing of the network after is at bus id or joins it
NothingAt(after, id) ==
    /\ \A p \in DOMAIN after.buses : after.buses[p].bus_id # id
    /\ \A p \in DOMAIN after.branches :
          after.branches[p].from_bus # id /\ after.branches[p].to_bus # id
    /\ \A p \in DOMAIN after.generators : after.generators[p].gen_bus_id # id
    /\ \A p \in DOMAIN after.loads : after.loads[p].bus_id # id
    /\ \A p \in DOMAIN after.fixed_shunts : after.fixed_shunts[p].bus_id # id
    /\ \A p \in DOMAIN after.switched_shunts : after.switched_shunts[p].bus_id # id

\* the entries of a list before that are not at bus id and do not join it are
\* the list after, in their order
OthersKept(before, after, id) ==
    LET NotAt(x) == x.bus_id # id
        NotGenAt(g) == g.gen_bus_id # id
        NotJoining(b) == b.from_bus # id /\ b.to_bus # id
    IN  /\ after.buses = SelectSeq(before.buses, NotAt)
        /\ after.branches = SelectSeq(before.branches, NotJoining)
        /\ after.generators = SelectSeq(before.generators, NotGenAt)
        /\ after.loads = SelectSeq(before.loads, NotAt)
        /\ after.fixed_shunts = SelectSeq(before.fixed_shunts, NotAt)
        /\ after.switched_shunts = SelectSeq(before.switched_shunts, NotAt)

\* C27: when delete_bus answers 200 for a bus id, the network after has no bus
\* with that id, no branch from or to it and no generator, load, fixed shunt or
\* switched shunt at it, and holds every other bus, branch, generator, load and
\* shunt of the network before in the order they were in.
C27_DeleteBusCascades ==
    [][(req' = "delete_bus" /\ resp' = 200) =>
          \E id \in BusIds(state[1]) :
             /\ NothingAt(state'[1], id)
             /\ OthersKept(state[1], state'[1], id)]_vars

\* delete_bus has answered 200 on a case of three buses and left two, each
\* with its generator, load and shunts, and the branch between them
C27_Witness ==
    /\ req = "delete_bus" /\ resp = 200
    /\ Len(state[1].buses) = 2
    /\ Len(state[1].branches) = 1
    /\ Len(state[1].generators) = 2 /\ Len(state[1].loads) = 2
    /\ Len(state[1].fixed_shunts) = 2 /\ Len(state[1].switched_shunts) = 2
    /\ \E p \in DOMAIN state[1].switched_shunts :
          state[1].switched_shunts[p].remote_bus \notin BusIds(state[1])
-----------------------------------------------------------------------------
(* server.rs: requests that fail *)

\* no network, or a case of two buses
InitReject ==
    /\ \/ state = << >>
       \/ \E at \in [1..2 -> BOOLEAN] : state = <<CascadeNetwork(2, at)>>
    /\ req = "none" /\ resp = 0
    /\ net = NewNetwork
    /\ IdleMap /\ IdleParse /\ IdleDc /\ IdleNr /\ IdleCon

NextReject == update_bus \/ delete_bus \/ delete_branch \/ delete_fixed_shunt

SpecReject == InitReject /\ [][NextReject]_vars

\* C28: a request that is answered with an error leaves the state as it was:
\* with no network loaded every edit request is answered 404 and the state
\* stays empty, and an update or delete that names a bus id, branch id or
\* shunt index the network does not have is answered 404 and changes no list
\* of the network and not bus_map.
C28_FailureChangesNothing ==
    [][/\ state = << >> => (resp' = 404 /\ state' = << >>)
       /\ resp' # 200 => state' = state]_vars

\* delete_bus has answered 404 on a loaded network in which a branch and a
\* generator name a bus that is not in the bus list
C28_Witness ==
    /\ req = "delete_bus" /\ resp = 404
    /\ state # << >>
    /\ \E p \in DOMAIN state[1].branches :
          state[1].branches[p].from_bus \notin BusIds(state[1])
    /\ \E p \in DOMAIN state[1].generators :
          state[1].generators[p].gen_bus_id \notin BusIds(state[1])
-----------------------------------------------------------------------------
(* The ids concurrent add_bus requests assign *)

\* the add_bus requests that were answered 200
Added == {t \in DOMAIN tasks : tasks[t].kind = "add_bus" /\ tasks[t].pc = "done"
                                /\ tasks[t].answer = 200}

\* one more than the largest of the ids, 1 when there is none
NextAfter(ids) ==
    IF ids = {} THEN 1 ELSE 1 + CHOOSE m \in ids : \A i \in ids : i <= m

\* C29: whatever the interleaving of the requests, the bus an add_bus request
\* adds gets the largest bus id present when the request holds the lock plus
\* one (1 when there is no bus), which is the id of no bus present then; when
\* all requests are add_bus requests no two of them get the same id.
C29_IdsAssignedUnderLock ==
    /\ \A t \in Added :
          /\ tasks[t].new_id = NextAfter(tasks[t].ids_before)
          /\ tasks[t].new_id \notin tasks[t].ids_before
    /\ (\A t \in DOMAIN tasks : tasks[t].kind = "add_bus") =>
          \A t, u \in Added : tasks[t].new_id = tasks[u].new_id => t = u

\* three concurrent add_bus requests on a loaded network without buses have
\* all been answered
C29_Witness ==
    /\ Cardinality(Added) = 3
    /\ {tasks[t].new_id : t \in Added} = {1, 2, 3}
    /\ state # << >> /\ Len(state[1].buses) = 3
-----------------------------------------------------------------------------
(* parse.rs: the line loop of read_case_v33 *)

MaxTail == 4

\* The sections in the order of the match at parse.rs:77-85
Sections == <<"Bus", "Load", "FixedShunt", "Generator", "Branch", "Transformer", "Done">>

\* the place of a section in that order
Ord(s) == CHOOSE k \in DOMAIN Sections : Sections[k] = s

\* section = match section { ... }
NextSection(s) == IF s = "Done" THEN "Done" ELSE Sections[Ord(s) + 1]

\* A line by what the loop does with it:
\*   "Q"             trimmed.starts_with("Q")
\*   "delimiter"     trimmed == "0" or trimmed.starts_with("0 /")
\*   "empty"         trimmed.is_empty()
\*   "short"         fewer than 5 fields
\*   "few_fields"    5 to 11 fields
\*   "two_winding"   12 fields or more, the third of them (K) 0
\*   "three_winding" 12 fields or more, K other than 0
\*   "unknown_ide"   13 fields or more, K = 0, the fourth (IDE) no bus type code
LineKinds == {"Q", "delimiter", "empty", "short", "few_fields", "two_winding",
              "three_winding", "unknown_ide"}

\* the lines a transformer record takes after its first: impedance, winding 1,
\* winding 2, and winding 3 when K is not 0
ContinuationLines(kind) == IF kind = "three_winding" THEN 4 ELSE 3

\* Files of three header lines, up to five sections without records and up to
\* MaxTail lines of any kind.
InitParse ==
    /\ \E k \in 0..5, t \in 0..MaxTail :
         \E tail \in [1..t -> LineKinds] :
           lines = [p \in 1..3 |-> "header"] \o [p \in 1..k |-> "delimiter"] \o tail
    /\ line_number = 3
    /\ section = "Bus"
    /\ parse_pc = "loop"
    /\ net = NewNetwork
    /\ IdleMap /\ IdleDc /\ IdleNr /\ IdleSrv

Advance(n) == line_number' = line_number + n /\ UNCHANGED <<section, parse_pc>>

\* break, process::exit(1) or a panic
Leave(how) == parse_pc' = how /\ UNCHANGED <<section, line_number>>

\* the first line of a transformer record and the lines it takes with it
TransformerRecord(kind) ==
    IF line_number + ContinuationLines(kind) >= Len(lines)
    THEN \* one of the tests line_number >= lines.len() breaks the loop
         /\ line_number' = Len(lines)
         /\ parse_pc' = "done"
         /\ UNCHANGED section
    ELSE Advance(ContinuationLines(kind) + 1)

\* one pass of 'lineloop
ParsePass ==
    /\ parse_pc = "loop"
    /\ line_number < Len(lines)
    /\ LET kind == lines[line_number + 1]
       IN  IF kind = "Q" THEN Leave("done")
           ELSE IF kind = "delimiter"
           THEN /\ section' = NextSection(section)
                /\ line_number' = line_number + 1
                /\ UNCHANGED parse_pc
           ELSE IF section = "Done" \/ kind = "empty" THEN Advance(1)
           ELSE IF section = "Bus"
           THEN (IF kind = "unknown_ide" THEN Leave("exited") ELSE Advance(1))
           ELSE IF section = "Transformer"
           THEN (IF kind = "short" THEN Advance(1)
                 ELSE IF kind = "few_fields" THEN Leave("panicked")
                 ELSE TransformerRecord(kind))
           ELSE Advance(1)
    /\ UNCHANGED <<lines, net, mapVars, dcVars, nrVars, srvVars>>

\* while line_number < lines.len() is false
ParseEnd ==
    /\ parse_pc = "loop"
    /\ line_number >= Len(lines)
    /\ parse_pc' = "done"
    /\ UNCHANGED <<lines, line_number, section, net, mapVars, dcVars, nrVars, srvVars>>

NextParse == ParsePass \/ ParseEnd

SpecParse == InitParse /\ [][NextParse]_vars

\* the loop runs as long as it can
SpecParseFair == SpecParse /\ WF_vars(NextParse)

\* the lines the loop has gone past: those at the indices 3, ..., line_number - 1
Passed == {p \in 4..line_number : p \in DOMAIN lines}

\* the section never moves backwards, moves one step at a time, and stays Done
SectionOnlyForward ==
    [][/\ Ord(section') \in {Ord(section), Ord(section) + 1}
       /\ section = "Done" => section' = "Done"]_vars

\* the line counter increases on every pass that does not leave the loop
LineCounterIncreases ==
    [][(parse_pc = "loop" /\ parse_pc' = "loop") => line_number' > line_number]_vars

\* the loop is left
ParseTerminates == <>(parse_pc # "loop")

\* C30: the section the loop is in is as many steps from Bus as there are
\* delimiter lines among the lines it has gone past (Done from the sixth on),
\* and it has gone past no line that starts with Q.
C30_SectionFollowsDelimiters ==
    parse_pc \in {"loop", "done"} =>
        /\ \A p \in Passed : lines[p] # "Q"
        /\ LET delimiters == Cardinality({p \in Passed : lines[p] = "delimiter"})
           IN  Ord(section) = IF delimiters >= 6 THEN 7 ELSE delimiters + 1

====
